---------------------------- MODULE Spec2Model ----------------------------
(***************************************************************************)
(* A state-machine model of src/services/requestHistoryService.js: the     *)
(* per-API-key request history recorder (startRequest, completeRequest,    *)
(* failRequest), its retention step (enforceRecordLimit) and its runtime   *)
(* configuration (initializeConfig, updateConfig).                         *)
(*                                                                         *)
(* Every `await` of the source is a step boundary: an action is the store  *)
(* call's effect together with the synchronous code that runs until the    *)
(* next await (or the return).  The store (models/redis) is not part of    *)
(* the sources at hand; its operations are modelled from the store         *)
(* contract of the specification (section 6).                              *)
(***************************************************************************)
EXTENDS Integers, Sequences, FiniteSets, TLC

\* ------------------------------------------------------------------ bounds

\* startRequest calls that reach the store in one run of the retention
\* specifications, and in one run of the others.
MaxRequests == 2
FewRequests == 1
\* completeRequest, failRequest and deleteRequest calls made in one run.
MaxEnds == 2
\* The body size limit of the configurations with a small one.
SmallSize == 60
\* Date.now() when the service is constructed, and how far it advances.
ClockStart == 9
MaxClock == 1

\* --------------------------------------------------------- program constants

DefaultMaxRecordsPerKey == 1000
DefaultMaxRequestBodySize == 5000
DefaultMaxResponseBodySize == 10000
\* enforceRecordLimit's hysteresis: cleanupThreshold = maxRecordsPerKey + 100.
CleanupBuffer == 100
\* failRequest's statusCode when errorData carries none.
DefaultErrorStatus == 500

\* ----------------------------------------------------------- JS values

\* An optional value: <<>> is undefined (absent), <<v>> is the value v.
None == <<>>
Some(v) == <<v>>

\* JS truthiness of an optional boolean: !undefined and !false both hold.
Truthy(b) == b # None /\ b[1]

\* `x ?? d`: d only when x is null/undefined.
Coalesce(x, d) == IF x = None THEN d ELSE x

\* `x || 0` on an optional number: 0 when x is undefined (or 0).
OrZero(x) == IF x = None \/ x[1] = 0 THEN 0 ELSE x[1]

\* `x || d` on an optional number: d when x is undefined or 0 (falsy).
OrNum(x, d) == IF x = None \/ x[1] = 0 THEN d ELSE x[1]

\* `x || d` on an optional string: d when x is undefined or "" (falsy).
OrStr(x, d) == IF x = None \/ x[1] = "" THEN d ELSE x[1]

\* ----------------------------------------------------------- configuration

\* this.defaultConfig
defaultConfig ==
  [ enableHistoryLogging |-> Some(TRUE),
    maxRecordsPerKey     |-> Some(DefaultMaxRecordsPerKey),
    maxRequestBodySize   |-> Some(DefaultMaxRequestBodySize),
    maxResponseBodySize  |-> Some(DefaultMaxResponseBodySize) ]

\* The four tunables of a freshly constructed object: not yet assigned.
unsetConfig ==
  [ enableHistoryLogging |-> None,
    maxRecordsPerKey     |-> None,
    maxRequestBodySize   |-> None,
    maxResponseBodySize  |-> None ]

\* initializeConfig, savedConfig branch: each field `saved.f ?? default.f`.
mergeSaved(saved) ==
  [ enableHistoryLogging |->
      Coalesce(saved.enableHistoryLogging, defaultConfig.enableHistoryLogging),
    maxRecordsPerKey     |->
      Coalesce(saved.maxRecordsPerKey, defaultConfig.maxRecordsPerKey),
    maxRequestBodySize   |->
      Coalesce(saved.maxRequestBodySize, defaultConfig.maxRequestBodySize),
    maxResponseBodySize  |->
      Coalesce(saved.maxResponseBodySize, defaultConfig.maxResponseBodySize) ]

\* A field of a configuration object is None when absent, Some(v) when it
\* holds a value v of the field's own type (boolean for the flag, number for
\* the three others), and a longer sequence when it holds a value of another
\* type, such as the string 'yes' or '100'.
MistypedFlag == << FALSE, FALSE >>
MistypedNumber == << 0, 0 >>

\* updateConfig's test of the flag: typeof boolean.
isBoolean(x) == Len(x) = 1

\* updateConfig's test of a numeric field: typeof number && > 0.
validNumber(x) == Len(x) = 1 /\ x[1] > 0

\* A variant that rejects the whole update when one present field is invalid.
applyUpdate_AllOrNothing(c, newConfig) ==
  IF \A f \in DOMAIN newConfig :
       \/ newConfig[f] = None
       \/ IF f = "enableHistoryLogging" THEN isBoolean(newConfig[f])
                                        ELSE validNumber(newConfig[f])
    THEN [ f \in DOMAIN c |->
             IF newConfig[f] # None THEN newConfig[f] ELSE c[f] ]
    ELSE c

\* updateConfig's in-memory part: each field applied on its own when valid.
applyUpdate(c, newConfig) ==
  [ enableHistoryLogging |->
      IF isBoolean(newConfig.enableHistoryLogging)
        THEN newConfig.enableHistoryLogging ELSE c.enableHistoryLogging,
    maxRecordsPerKey     |->
      IF validNumber(newConfig.maxRecordsPerKey)
        THEN newConfig.maxRecordsPerKey ELSE c.maxRecordsPerKey,
    maxRequestBodySize   |->
      IF validNumber(newConfig.maxRequestBodySize)
        THEN newConfig.maxRequestBodySize ELSE c.maxRequestBodySize,
    maxResponseBodySize  |->
      IF validNumber(newConfig.maxResponseBodySize)
        THEN newConfig.maxResponseBodySize ELSE c.maxResponseBodySize ]

\* A partial configuration object.
Partial(e, m, q, r) ==
  [ enableHistoryLogging |-> e, maxRecordsPerKey |-> m,
    maxRequestBodySize |-> q, maxResponseBodySize |-> r ]

\* The small cap the administrator may set, and the persisted caps tried.
LowCap == 1

\* Arguments of updateConfig that are tried.
ConfigUpdates ==
  { Partial(Some(FALSE), None, None, None),
    Partial(Some(TRUE), Some(LowCap), None, None),
    Partial(None, Some(0 - 5), None, None) }



\* Arguments of updateConfig in which valid, invalid, mistyped and absent
\* fields are mixed.
MixedUpdates ==
  { Partial(Some(FALSE), None, None, None),
    Partial(Some(TRUE), Some(LowCap), Some(LowCap), Some(LowCap)),
    Partial(MistypedFlag, Some(0 - 5), Some(LowCap + 1), MistypedNumber),
    Partial(Some(FALSE), MistypedNumber, Some(0), Some(LowCap + 2)) }

\* ------------------------------------------------------------------ headers

\* The most headers in a mapping that is tried.
MaxHeaders == 2

\* A header name is the sequence of its characters.
Upper ==
  << "A", "B", "C", "D", "E", "F", "G", "H", "I", "J", "K", "L", "M",
     "N", "O", "P", "Q", "R", "S", "T", "U", "V", "W", "X", "Y", "Z" >>
Lower ==
  << "a", "b", "c", "d", "e", "f", "g", "h", "i", "j", "k", "l", "m",
     "n", "o", "p", "q", "r", "s", "t", "u", "v", "w", "x", "y", "z" >>

\* String.prototype.toLowerCase, on the characters above and on those that
\* have no case.
toLowerChar(ch) ==
  IF \E i \in DOMAIN Upper : Upper[i] = ch
    THEN Lower[CHOOSE i \in DOMAIN Upper : Upper[i] = ch]
    ELSE ch
toLowerCase(key) == [ i \in DOMAIN key |-> toLowerChar(key[i]) ]

\* sanitizeHeaders' list sensitiveHeaders.
sensitiveHeaders ==
  << << "a", "u", "t", "h", "o", "r", "i", "z", "a", "t", "i", "o", "n" >>,
     << "x", "-", "a", "p", "i", "-", "k", "e", "y" >>,
     << "c", "o", "o", "k", "i", "e" >>,
     << "s", "e", "t", "-", "c", "o", "o", "k", "i", "e" >>,
     << "p", "r", "o", "x", "y", "-", "a", "u", "t", "h", "o", "r", "i", "z",
        "a", "t", "i", "o", "n" >> >>

\* Array.prototype.includes
includes(array, x) == \E i \in DOMAIN array : array[i] = x

\* The value written for a sensitive header.
Redacted == "[REDACTED]"

\* The property name that Object.prototype answers with an accessor.
ProtoKey == << "_", "_", "p", "r", "o", "t", "o", "_", "_" >>

\* An object is the sequence of its own entries [key, value], in insertion
\* order, which is the order of Object.entries for such names.
Entry(key, value) == [ key |-> key, value |-> value ]

\* A variant that puts a new property in front of the others.
setProperty_InFront(obj, key, value) ==
  IF key = ProtoKey THEN obj
  ELSE IF \E i \in DOMAIN obj : obj[i].key = key
    THEN [ i \in DOMAIN obj |->
             IF obj[i].key = key THEN Entry(key, value) ELSE obj[i] ]
    ELSE << Entry(key, value) >> \o obj

\* `obj[key] = value` on an object created by `{}`, value being a string:
\* an own property is set, or added after the others - but the name
\* __proto__ reaches the setter inherited from Object.prototype, which
\* ignores a value that is neither an object nor null and adds no property.
setProperty(obj, key, value) ==
  IF key = ProtoKey THEN obj
  ELSE IF \E i \in DOMAIN obj : obj[i].key = key
    THEN [ i \in DOMAIN obj |->
             IF obj[i].key = key THEN Entry(key, value) ELSE obj[i] ]
    ELSE Append(obj, Entry(key, value))

\* A variant that compares the header name as it is written.
sanitizeEntries_CaseSensitive(entries, sanitized) ==
  [ i \in DOMAIN entries |->
      IF includes(sensitiveHeaders, entries[i].key)
        THEN Entry(entries[i].key, Redacted) ELSE entries[i] ]

\* sanitizeHeaders' loop over the remaining entries of headers.
RECURSIVE sanitizeEntries(_, _)
sanitizeEntries(entries, sanitized) ==
  IF entries = << >> THEN sanitized
  ELSE LET key == Head(entries).key
           value == Head(entries).value
       IN sanitizeEntries(
            Tail(entries),
            IF includes(sensitiveHeaders, toLowerCase(key))
              THEN setProperty(sanitized, key, Redacted)
              ELSE setProperty(sanitized, key, value))

\* sanitizeHeaders(headers); None is a null or undefined headers.
sanitizeHeaders(headers) ==
  IF headers = None THEN << >> ELSE sanitizeEntries(headers[1], << >>)

\* Header names that are tried: sensitive ones in several casings, one that
\* only starts like a sensitive one, a harmless one, and __proto__.
Authorization ==
  << "A", "u", "t", "h", "o", "r", "i", "z", "a", "t", "i", "o", "n" >>
Accept == << "A", "c", "c", "e", "p", "t" >>
HeaderNames ==
  { Authorization,
    << "a", "u", "t", "h", "o", "r", "i", "z", "a", "t", "i", "o", "n" >>,
    << "X", "-", "A", "P", "I", "-", "K", "e", "y" >>,
    << "C", "O", "O", "K", "I", "E" >>,
    << "S", "e", "t", "-", "C", "o", "o", "k", "i", "e" >>,
    << "P", "r", "o", "x", "y", "-", "A", "u", "t", "h", "o", "r", "i", "z",
       "a", "t", "i", "o", "n" >>,
    << "C", "o", "o", "k", "i", "e", "s" >>,
    Accept,
    ProtoKey }

\* Header values that are tried.
HeaderValues == { "secret", "gzip" }

\* The arguments of sanitizeHeaders that are tried: null, and the mappings
\* of at most MaxHeaders headers.
HeaderInputs ==
  { None } \cup
  { Some(h) : h \in
      { g \in UNION { [ 1 .. n -> { Entry(k, v) : k \in HeaderNames,
                                                  v \in HeaderValues } ] :
                       n \in 0 .. MaxHeaders } :
          \A i, j \in DOMAIN g : g[i].key = g[j].key => i = j } }

\* ------------------------------------------------------------ history records

\* Owner keys (apiKeyId) of the requests; NoKey is an absent apiKeyId.
Keys == {"k1", "k2"}
NoKey == ""
RequestKeys == Keys \cup {NoKey}

\* The requestId of a call that passes none (falsy).
EmptyId == 0

\* String(n): the decimal digits of a number n >= 0, most significant first.
RECURSIVE digits(_)
digits(n) == IF n < 10 THEN << n >> ELSE Append(digits(n \div 10), n % 10)

\* The number a sequence of decimal digits denotes.
RECURSIVE digitsValue(_)
digitsValue(ds) ==
  IF ds = << >> THEN 0
  ELSE 10 * digitsValue(SubSeq(ds, 1, Len(ds) - 1)) + ds[Len(ds)]

\* Variant: nothing of x is parsed.
parseInt_Zero(x) == 0

\* parseInt(x) of a number x >= 0: x is turned into its decimal string, which
\* is parsed.
parseInt(x) == digitsValue(digits(x))

\* ------------------------------------------------------------------- bodies

\* The most characters of a response body that go into a preview.
PreviewLength == 1000

\* A JS value carried by a request or a response: undefined, a string (the
\* sequence of its characters), a number, or an object (its own entries, in
\* insertion order).
Undefined == [ n |-> 0, t |-> "undefined", s |-> << >>, o |-> << >> ]
Str(s) == [ n |-> 0, t |-> "string", s |-> s, o |-> << >> ]
Num(n) == [ n |-> n, t |-> "number", s |-> << >>, o |-> << >> ]
Obj(o) == [ n |-> 0, t |-> "object", s |-> << >>, o |-> o ]

\* JS truthiness: undefined, '' and 0 are falsy, every object is truthy.
isTruthy(v) ==
  \/ v.t = "object"
  \/ v.t = "string" /\ v.s # << >>
  \/ v.t = "number" /\ v.n # 0

\* `a || b`
OrElse(a, b) == IF isTruthy(a) THEN a ELSE b

\* `obj?.key`: undefined for an undefined obj and for a missing property.
getProperty(obj, key) ==
  IF \E i \in DOMAIN obj.o : obj.o[i].key = key
    THEN obj.o[CHOOSE i \in DOMAIN obj.o : obj.o[i].key = key].value
    ELSE Undefined

\* The characters of a number's decimal form.
DigitChars == << "0", "1", "2", "3", "4", "5", "6", "7", "8", "9" >>
numberChars(n) == [ i \in DOMAIN digits(n) |-> DigitChars[digits(n)[i] + 1] ]

\* JSON.stringify of a string of plain characters (none needs an escape),
\* of a number and of an object, whose undefined properties are left out.
RECURSIVE stringify(_)
RECURSIVE stringifyEntries(_, _)
stringifyEntries(entries, first) ==
  IF entries = << >> THEN << >>
  ELSE IF Head(entries).value.t = "undefined"
    THEN stringifyEntries(Tail(entries), first)
    ELSE (IF first THEN << >> ELSE << "," >>)
           \o << "\"" >> \o Head(entries).key \o << "\"", ":" >>
           \o stringify(Head(entries).value)
           \o stringifyEntries(Tail(entries), FALSE)
stringify(v) ==
  CASE v.t = "string" -> << "\"" >> \o v.s \o << "\"" >>
    [] v.t = "number" -> numberChars(v.n)
    [] v.t = "object" -> << "{" >> \o stringifyEntries(v.o, TRUE) \o << "}" >>
    [] OTHER -> << >>

\* `length > this.max...BodySize`, false while the tunable is undefined.
exceeds(length, maxBodySize) == Len(maxBodySize) = 1 /\ length > maxBodySize[1]

\* String.prototype.substring(0, n)
substring(s, n) == SubSeq(s, 1, IF n < Len(s) THEN n ELSE Len(s))

\* Property names of the bodies.
ModelKey == << "m", "o", "d", "e", "l" >>
MessagesKey == << "m", "e", "s", "s", "a", "g", "e", "s" >>
SystemKey == << "s", "y", "s", "t", "e", "m" >>
TypeKey == << "t", "y", "p", "e" >>
OriginalLengthKey ==
  << "o", "r", "i", "g", "i", "n", "a", "l", "L", "e", "n", "g", "t", "h" >>
PreviewKey == << "p", "r", "e", "v", "i", "e", "w" >>

\* '[TRUNCATED - Large Messages]', 'truncated', '...' and 'unknown'
TruncationMarker ==
  << "[", "T", "R", "U", "N", "C", "A", "T", "E", "D", " ", "-", " ", "L",
     "a", "r", "g", "e", " ", "M", "e", "s", "s", "a", "g", "e", "s", "]" >>
Truncated == << "t", "r", "u", "n", "c", "a", "t", "e", "d" >>
Ellipsis == << ".", ".", "." >>
Unknown == << "u", "n", "k", "n", "o", "w", "n" >>

\* startRequest's requestBody: a body whose JSON text is longer than
\* maxRequestBodySize is copied with `messages` set to the marker if it has
\* truthy messages, and to its own messages otherwise.
truncateRequestBody(requestBody, maxRequestBodySize) ==
  IF /\ isTruthy(requestBody)
     /\ exceeds(Len(stringify(requestBody)), maxRequestBodySize)
    THEN Obj(setProperty(
               requestBody.o, MessagesKey,
               IF isTruthy(getProperty(requestBody, MessagesKey))
                 THEN Str(TruncationMarker)
                 ELSE getProperty(requestBody, MessagesKey)))
    ELSE requestBody

\* The summary that replaces a long response body.
truncatedSummary(responseBody) ==
  Obj(<< Entry(TypeKey, Str(Truncated)),
         Entry(OriginalLengthKey, Num(Len(stringify(responseBody)))),
         Entry(PreviewKey,
               Str(substring(stringify(responseBody), PreviewLength)
                     \o Ellipsis)) >>)

\* Variant: a body as long as the limit is summarized too.
truncateResponseBody_Inclusive(responseBody, maxResponseBodySize) ==
  IF /\ isTruthy(responseBody)
     /\ exceeds(Len(stringify(responseBody)) + 1, maxResponseBodySize)
    THEN truncatedSummary(responseBody)
    ELSE responseBody

\* completeRequest's responseBody: a body whose JSON text is longer than
\* maxResponseBodySize is replaced by the summary.
truncateResponseBody(responseBody, maxResponseBodySize) ==
  IF /\ isTruthy(responseBody)
     /\ exceeds(Len(stringify(responseBody)), maxResponseBodySize)
    THEN truncatedSummary(responseBody)
    ELSE responseBody

\* new Date().toISOString(): the instant as a string.
toISOString(t) == numberChars(t)

\* The requestData of startRequest.
RequestData(apiKeyId, apiKeyName, model, requestBody, headers) ==
  [ headers |-> headers, requestBody |-> requestBody, apiKeyId |-> apiKeyId,
    apiKeyName |-> apiKeyName, model |-> model ]

\* A requestData that carries the owner key only.
BareRequest(apiKeyId) ==
  RequestData(apiKeyId, Undefined, Undefined, Undefined, None)

\* startRequest's historyRecord: the fields written at start; the terminal
\* fields are not there yet.
newRecord(requestId, requestData, maxRequestBodySize, t) ==
  [ requestId |-> requestId,
    timestamp |-> toISOString(t),
    apiKeyId  |-> requestData.apiKeyId,
    apiKeyName |-> requestData.apiKeyName,
    model     |-> OrElse(requestData.model,
                         OrElse(getProperty(requestData.requestBody, ModelKey),
                                Str(Unknown))),
    status    |-> "pending",
    requestBody |-> truncateRequestBody(requestData.requestBody,
                                        maxRequestBodySize),
    headers   |-> sanitizeHeaders(requestData.headers),
    startTime |-> t,
    duration  |-> None,
    endTime   |-> None,
    responseBody |-> Undefined,
    statusCode |-> None,
    inputTokens |-> None,
    outputTokens |-> None,
    cacheCreateTokens |-> None,
    cacheReadTokens |-> None,
    totalTokens |-> None,
    error |-> None ]

\* Variant: the cache counters are left out of the total.
totalTokens_NoCache(responseData) ==
  OrZero(responseData.inputTokens) + OrZero(responseData.outputTokens)

\* completeRequest's totalTokens: the four counters, each `|| 0`.
totalTokens(responseData) ==
  OrZero(responseData.inputTokens) + OrZero(responseData.outputTokens)
    + OrZero(responseData.cacheCreateTokens) + OrZero(responseData.cacheReadTokens)

\* Variant: the record is written under the first id of the run.
completedRecord_FirstId(existingRecord, responseData, maxResponseBodySize, endTime) ==
  [ existingRecord EXCEPT
      !.requestId = 1,
      !.status = "success",
      !.duration = Some(endTime - parseInt(existingRecord.startTime)),
      !.responseBody = truncateResponseBody(responseData.responseBody,
                                            maxResponseBodySize),
      !.statusCode = responseData.statusCode,
      !.inputTokens = Some(OrZero(responseData.inputTokens)),
      !.outputTokens = Some(OrZero(responseData.outputTokens)),
      !.cacheCreateTokens = Some(OrZero(responseData.cacheCreateTokens)),
      !.cacheReadTokens = Some(OrZero(responseData.cacheReadTokens)),
      !.totalTokens = Some(totalTokens(responseData)),
      !.endTime = Some(endTime) ]

\* Variant: the response body is written over the request body.
completedRecord_OverRequest(existingRecord, responseData, maxResponseBodySize, endTime) ==
  [ existingRecord EXCEPT
      !.status = "success",
      !.duration = Some(endTime - parseInt(existingRecord.startTime)),
      !.requestBody = truncateResponseBody(responseData.responseBody,
                                           maxResponseBodySize),
      !.statusCode = responseData.statusCode,
      !.inputTokens = Some(OrZero(responseData.inputTokens)),
      !.outputTokens = Some(OrZero(responseData.outputTokens)),
      !.cacheCreateTokens = Some(OrZero(responseData.cacheCreateTokens)),
      !.cacheReadTokens = Some(OrZero(responseData.cacheReadTokens)),
      !.totalTokens = Some(totalTokens(responseData)),
      !.endTime = Some(endTime) ]

\* completeRequest's updatedRecord: {...existingRecord, status: 'success', ...}.
completedRecord(existingRecord, responseData, maxResponseBodySize, endTime) ==
  [ existingRecord EXCEPT
      !.status = "success",
      !.duration = Some(endTime - parseInt(existingRecord.startTime)),
      !.responseBody = truncateResponseBody(responseData.responseBody,
                                            maxResponseBodySize),
      !.statusCode = responseData.statusCode,
      !.inputTokens = Some(OrZero(responseData.inputTokens)),
      !.outputTokens = Some(OrZero(responseData.outputTokens)),
      !.cacheCreateTokens = Some(OrZero(responseData.cacheCreateTokens)),
      !.cacheReadTokens = Some(OrZero(responseData.cacheReadTokens)),
      !.totalTokens = Some(totalTokens(responseData)),
      !.endTime = Some(endTime) ]

\* Variant: statusCode and error are stored as supplied, with no default.
failedRecord_NoDefault(existingRecord, errorData, endTime) ==
  [ existingRecord EXCEPT
      !.status = "error",
      !.duration = Some(endTime - parseInt(existingRecord.startTime)),
      !.error = errorData.error,
      !.statusCode = errorData.statusCode,
      !.endTime = Some(endTime) ]

\* Variant: the status of the record read is kept.
failedRecord_SameStatus(existingRecord, errorData, endTime) ==
  [ existingRecord EXCEPT
      !.duration = Some(endTime - parseInt(existingRecord.startTime)),
      !.error = Some(OrStr(errorData.error, "Unknown error")),
      !.statusCode = Some(OrNum(errorData.statusCode, DefaultErrorStatus)),
      !.endTime = Some(endTime) ]

\* failRequest's updatedRecord: {...existingRecord, status: 'error', ...}.
failedRecord(existingRecord, errorData, endTime) ==
  [ existingRecord EXCEPT
      !.status = "error",
      !.duration = Some(endTime - parseInt(existingRecord.startTime)),
      !.error = Some(OrStr(errorData.error, "Unknown error")),
      !.statusCode = Some(OrNum(errorData.statusCode, DefaultErrorStatus)),
      !.endTime = Some(endTime) ]

\* responseData objects passed to completeRequest.
ResponseData(sc, i, o, cc, cr) ==
  [ responseBody |-> Undefined, statusCode |-> sc, inputTokens |-> i,
    outputTokens |-> o, cacheCreateTokens |-> cc, cacheReadTokens |-> cr ]

\* ... with a response body.
WithBody(responseData, responseBody) ==
  [ responseData EXCEPT !.responseBody = responseBody ]

ResponseDatas ==
  { ResponseData(Some(200), Some(1), Some(2), Some(4), Some(8)),
    ResponseData(None, Some(3), None, None, Some(0)) }

\* errorData objects passed to failRequest.
ErrorData(e, sc) == [ statusCode |-> sc, error |-> e ]

ErrorDatas ==
  { ErrorData(Some("boom"), Some(429)),
    ErrorData(None, None),
    ErrorData(Some(""), Some(0)) }

\* Variant: a threshold one lower, as if the test were `>=`.
cleanupThreshold_Inclusive(maxRecordsPerKey) == maxRecordsPerKey + CleanupBuffer - 1

\* Variant: a threshold one higher.
cleanupThreshold_Late(maxRecordsPerKey) == maxRecordsPerKey + CleanupBuffer + 1

\* Variant: the threshold is taken from the default cap, whatever the cap is.
cleanupThreshold_Default(maxRecordsPerKey) == DefaultMaxRecordsPerKey + CleanupBuffer

\* enforceRecordLimit: cleanupThreshold = this.maxRecordsPerKey + 100.
cleanupThreshold(maxRecordsPerKey) == maxRecordsPerKey + CleanupBuffer

\* Variant: the whole count is asked to be removed.
excessCount_All(recordCount, maxRecordsPerKey) == recordCount

\* Variant: only what lies above the threshold is asked to be removed.
excessCount_Buffer(recordCount, maxRecordsPerKey) ==
  recordCount - (maxRecordsPerKey + CleanupBuffer)

\* enforceRecordLimit: excessCount = recordCount - this.maxRecordsPerKey.
excessCount(recordCount, maxRecordsPerKey) == recordCount - maxRecordsPerKey

\* ---------------------------------------------------------------- state

VARIABLES
  cfg,       \* the four tunables held by the service object
  blob,      \* the store's 'request_history_config' entry (None: absent)
  initPc,    \* where initializeConfig stands: "load", "save" or "done"
  admin,     \* the updateConfig call in progress, if any
  history,   \* the records stored in this run, in insertion order
  oldCount,  \* per owner key, the records stored before this run (all older)
  ops,       \* per caller, the recorder call in progress, if any
  last,      \* the recorder call that returned last
  issued,    \* the request ids startRequest has returned to its callers
  nextId,    \* the next fresh request id
  ends,      \* the completeRequest, failRequest and deleteRequest calls so far
  now        \* Date.now()

vars == << cfg, blob, initPc, admin, history, oldCount, ops, last, issued, nextId, ends, now >>

\* The concurrent callers of the recorder, numbered from 1; each runs one
\* call at a time.
Callers == DOMAIN ops

\* ---------------------------------------------------- the store (models/redis)

\* redis.getRequestHistory(requestId): the record, or None.
getRequestHistory(requestId) ==
  IF \E i \in DOMAIN history : history[i].requestId = requestId
    THEN Some(history[CHOOSE i \in DOMAIN history :
                        history[i].requestId = requestId])
    ELSE None

\* redis.saveRequestHistory(record): upsert by requestId; a new id is the
\* newest record of its owner.
saveRequestHistory(record) ==
  IF \E i \in DOMAIN history : history[i].requestId = record.requestId
    THEN [ history EXCEPT
             ![CHOOSE i \in DOMAIN history :
                 history[i].requestId = record.requestId] = record ]
    ELSE Append(history, record)

\* The records of this run owned by apiKeyId, as positions of history.
OwnedBy(apiKeyId) == { i \in DOMAIN history : history[i].apiKeyId = apiKeyId }

\* redis.getRequestHistoryCount(apiKeyId)
getRequestHistoryCount(apiKeyId) ==
  oldCount[apiKeyId] + Cardinality(OwnedBy(apiKeyId))

Min(a, b) == IF a <= b THEN a ELSE b

\* redis.removeOldestRequestHistory(apiKeyId, n), its effect on oldCount:
\* the earlier records are the oldest and go first.
removeOldestOld(apiKeyId, n) ==
  [ oldCount EXCEPT ![apiKeyId] = @ - Min(n, @) ]

\* ... and its effect on history: what is left of n removes the owner's
\* oldest records of this run.
removeOldestNew(apiKeyId, n) ==
  LET rest == n - Min(n, oldCount[apiKeyId])
      kept == { i \in DOMAIN history :
                  \/ history[i].apiKeyId # apiKeyId
                  \/ Cardinality({ j \in OwnedBy(apiKeyId) : j <= i }) > rest }
      nth(j) == CHOOSE i \in kept : Cardinality({ x \in kept : x <= i }) = j
  IN  [ j \in 1 .. Cardinality(kept) |-> history[nth(j)] ]

\* redis.deleteRequestHistory(requestId), its effect on history.
deleteRequestHistory(requestId) ==
  SelectSeq(history, LAMBDA r : r.requestId # requestId)

\* getRequestDetails(requestId), the store answering.
getRequestDetails(requestId) == getRequestHistory(requestId)

\* redis.getRequestHistoryList(options), options empty: the records of this
\* run.
getRequestHistoryList == history

\* Sum of the numbers fn[i] for the i of set.
RECURSIVE SumOver(_, _)
SumOver(set, fn) ==
  IF set = {} THEN 0
  ELSE LET i == CHOOSE j \in set : TRUE
       IN  fn[i] + SumOver(set \ {i}, fn)

\* redis.getRequestHistoryStats(apiKeyId, null, null) over the records of
\* this run; the per-model and per-status tables are left empty.
getRequestHistoryStats(apiKeyId) ==
  LET owned == OwnedBy(apiKeyId)
      done  == { i \in owned : history[i].duration # None }
      Tokens == [ i \in owned |-> IF history[i].totalTokens = None THEN 0
                                  ELSE history[i].totalTokens[1] ]
      Duration == [ i \in done |-> history[i].duration[1] ]
  IN  [ totalRequests   |-> Cardinality(owned),
        successRequests |-> Cardinality({ i \in owned : history[i].status = "success" }),
        failedRequests  |-> Cardinality({ i \in owned : history[i].status = "error" }),
        totalTokens     |-> SumOver(owned, Tokens),
        avgDuration     |-> IF done = {} THEN 0
                            ELSE SumOver(done, Duration) \div Cardinality(done),
        modelStats      |-> << >>,
        statusStats     |-> << >> ]

\* ------------------------------------------------------------- the callers

\* A store call a recorder call has issued: its name, whether the store
\* answered (ok) or raised, and the number it was given (removeOldest's n).
Call(op, ok, n) == [ op |-> op, ok |-> ok, n |-> n ]

\* A caller with no call: the locals of a recorder call, unset.
\*   kind    "start", "complete", "fail" or "delete" ("none": no call yet)
\*   pc      "idle", "done", or the await the call stands at
\*   id      requestId; key: apiKeyId
\*   arg     requestData, responseData or errorData
\*   pre     the owner's record count when startRequest was called
\*   cnt     recordCount; lim: this.maxRecordsPerKey as enforceRecordLimit
\*           read it; excess: excessCount
\*   upd     updatedRecord; ret: the value returned (None: null/undefined)
\*   calls   the store calls issued so far
\*   alone   no other recorder call has run during this one
Idle ==
  [ kind |-> "none", pc |-> "idle", id |-> EmptyId, key |-> NoKey, arg |-> None,
    pre |-> 0, cnt |-> None, lim |-> None, excess |-> None, upd |-> None,
    ret |-> None, calls |-> <<>>, alone |-> TRUE ]

InProgress(o) == o.pc # "idle"

\* No other caller has a call in progress.
AloneNow(c) == \A e \in Callers \ {c} : ~InProgress(ops[e])

\* The callers as caller c enters a call: the calls in progress are no longer
\* alone.
Marked(c) ==
  [ d \in Callers |->
      IF d # c /\ InProgress(ops[d]) THEN [ ops[d] EXCEPT !.alone = FALSE ]
      ELSE ops[d] ]

\* What is kept of a call that has returned ret.
Returned(o, ret) ==
  [ Idle EXCEPT !.kind = o.kind, !.pc = "done", !.id = o.id, !.key = o.key,
                !.pre = o.pre, !.excess = o.excess, !.ret = ret,
                !.calls = o.calls, !.alone = o.alone ]

\* Caller c enters a call and stands at an await with locals o.
EnterGo(c, o) ==
  /\ ops' = [ Marked(c) EXCEPT ![c] = [ o EXCEPT !.alone = AloneNow(c) ] ]
  /\ UNCHANGED last

\* Caller c enters a call that returns ret before any other step.
EnterReturn(c, o, ret) ==
  /\ ops' = Marked(c)
  /\ last' = Returned([ o EXCEPT !.alone = AloneNow(c) ], ret)

\* Caller c's call goes on to its next await with locals o.
Go(c, o) ==
  /\ ops' = [ ops EXCEPT ![c] = o ]
  /\ UNCHANGED last

\* Caller c's call returns ret.
Return(c, o, ret) ==
  /\ ops' = [ ops EXCEPT ![c] = Idle ]
  /\ last' = Returned(o, ret)

\* `if (!this.enableHistoryLogging) return null` (startRequest)
startSkips == ~Truthy(cfg.enableHistoryLogging)

\* Variant: completeRequest tests the switch only.
completeSkips_NoId(requestId) == ~Truthy(cfg.enableHistoryLogging)

\* Variant: completeRequest tests the id only.
completeSkips_NoFlag(requestId) == requestId = EmptyId

\* `if (!this.enableHistoryLogging || !requestId) return` (completeRequest)
completeSkips(requestId) ==
  ~Truthy(cfg.enableHistoryLogging) \/ requestId = EmptyId

\* `if (!this.enableHistoryLogging || !requestId) return` (failRequest)
failSkips(requestId) ==
  ~Truthy(cfg.enableHistoryLogging) \/ requestId = EmptyId

\* Variant: enforceRecordLimit lets the error out, and startRequest's own
\* catch turns it into null.
afterEnforceError_Null(requestId) == None

\* What startRequest returns once enforceRecordLimit's store call has raised:
\* enforceRecordLimit catches the error itself, so startRequest goes on to
\* `return requestId`.
afterEnforceError(requestId) == Some(requestId)

\* Variant: startRequest's catch hands out the id it had drawn.
afterSaveError_Id(requestId) == Some(requestId)

\* What startRequest returns once redis.saveRequestHistory has raised: its
\* catch logs and does `return null`.
afterSaveError(requestId) == None

\* Variant: enforceRecordLimit goes on whatever the key.
enforceSkips_Never(apiKeyId) == FALSE

\* `if (!apiKeyId) return` (enforceRecordLimit)
enforceSkips(apiKeyId) == apiKeyId = NoKey

\* The owner's record count as a call begins (none for an absent key).
CountOf(apiKeyId) ==
  IF apiKeyId \in Keys THEN getRequestHistoryCount(apiKeyId) ELSE 0

\* startRequest(requestData) up to its first await and that await's effect,
\* redis.saveRequestHistory(historyRecord); with an absent apiKeyId
\* enforceRecordLimit returns at once and so does startRequest.
StartRequestOf(c, requestData, ok) ==
  /\ ~InProgress(ops[c])
  /\ LET apiKeyId == requestData.apiKeyId
         o == [ Idle EXCEPT !.kind = "start", !.key = apiKeyId,
                            !.arg = Some(requestData),
                            !.pre = CountOf(apiKeyId) ]
     IN
     IF startSkips
       THEN /\ EnterReturn(c, o, None)
            /\ UNCHANGED << history, nextId, issued >>
       ELSE /\ nextId' = nextId + 1
            /\ LET o1 == [ o EXCEPT !.id = nextId,
                             !.calls = << Call("saveRequestHistory", ok, 0) >> ]
               IN
               IF ~ok
                 THEN /\ EnterReturn(c, o1, afterSaveError(nextId))
                      /\ issued' = IF last'.ret # None THEN issued \cup {nextId}
                                    ELSE issued
                      /\ UNCHANGED history
                 ELSE /\ history' = saveRequestHistory(
                                      newRecord(nextId, requestData,
                                                cfg.maxRequestBodySize, now))
                      /\ IF enforceSkips(apiKeyId)
                           THEN /\ EnterReturn(c, o1, Some(nextId))
                                /\ issued' = issued \cup {nextId}
                           ELSE /\ EnterGo(c, [ o1 EXCEPT !.pc = "count" ])
                                /\ UNCHANGED issued
  /\ UNCHANGED << cfg, blob, initPc, admin, oldCount, ends, now >>

\* startRequest with a requestData that carries the owner key only.
StartRequest(c, apiKeyId, ok) == StartRequestOf(c, BareRequest(apiKeyId), ok)

\* enforceRecordLimit: redis.getRequestHistoryCount answers (or raises, which
\* is caught) and the threshold test runs.
StartCount(c, ok) ==
  /\ ops[c].kind = "start" /\ ops[c].pc = "count"
  /\ LET o == ops[c]
         recordCount == getRequestHistoryCount(o.key)
         maxRecordsPerKey == cfg.maxRecordsPerKey[1]
         o1 == [ o EXCEPT !.calls = Append(@, Call("getRequestHistoryCount", ok, 0)) ]
     IN
     IF ok /\ recordCount > cleanupThreshold(maxRecordsPerKey)
       THEN /\ Go(c, [ o1 EXCEPT
                       !.pc = "trim",
                       !.cnt = Some(recordCount),
                       !.lim = Some(maxRecordsPerKey),
                       !.excess = Some(excessCount(recordCount, maxRecordsPerKey)) ])
            /\ UNCHANGED issued
       ELSE /\ Return(c, o1, IF ok THEN Some(o.id) ELSE afterEnforceError(o.id))
            /\ issued' = IF last'.ret # None THEN issued \cup {o.id} ELSE issued
  /\ UNCHANGED << cfg, blob, initPc, admin, history, oldCount, nextId, ends, now >>

\* Variant: the trim removes the oldest records of owner k2, whoever owns the
\* record just stored.
StartTrim_OneOwner(c, ok) ==
  /\ ops[c].kind = "start" /\ ops[c].pc = "trim"
  /\ LET o == ops[c]
         n == o.excess[1]
         o1 == [ o EXCEPT
                   !.calls = Append(@, Call("removeOldestRequestHistory", ok, n)) ]
     IN
     /\ IF ok
          THEN /\ oldCount' = removeOldestOld("k2", n)
               /\ history' = removeOldestNew("k2", n)
          ELSE UNCHANGED << oldCount, history >>
     /\ Return(c, o1, IF ok THEN Some(o.id) ELSE afterEnforceError(o.id))
     /\ issued' = IF last'.ret # None THEN issued \cup {o.id} ELSE issued
  /\ UNCHANGED << cfg, blob, initPc, admin, nextId, ends, now >>

\* enforceRecordLimit: redis.removeOldestRequestHistory(apiKeyId, excessCount)
\* takes effect (or raises, which is caught); startRequest returns the id.
StartTrim(c, ok) ==
  /\ ops[c].kind = "start" /\ ops[c].pc = "trim"
  /\ LET o == ops[c]
         n == o.excess[1]
         o1 == [ o EXCEPT
                   !.calls = Append(@, Call("removeOldestRequestHistory", ok, n)) ]
     IN
     /\ IF ok
          THEN /\ oldCount' = removeOldestOld(o.key, n)
               /\ history' = removeOldestNew(o.key, n)
          ELSE UNCHANGED << oldCount, history >>
     /\ Return(c, o1, IF ok THEN Some(o.id) ELSE afterEnforceError(o.id))
     /\ issued' = IF last'.ret # None THEN issued \cup {o.id} ELSE issued
  /\ UNCHANGED << cfg, blob, initPc, admin, nextId, ends, now >>

\* completeRequest(requestId, responseData) up to the answer of
\* redis.getRequestHistory and the code that follows it: the record missing
\* (or the store raising) ends the call, otherwise updatedRecord is built from
\* the record read and Date.now().
CompleteRequest(c, requestId, responseData, ok) ==
  /\ ~InProgress(ops[c])
  /\ ends' = ends + 1
  /\ LET o == [ Idle EXCEPT !.kind = "complete", !.id = requestId ]
         o1 == [ o EXCEPT !.calls = << Call("getRequestHistory", ok, 0) >> ]
         existingRecord == getRequestHistory(requestId)
     IN
     IF completeSkips(requestId)
       THEN EnterReturn(c, o, None)
       ELSE IF ~ok \/ existingRecord = None
         THEN EnterReturn(c, o1, None)
         ELSE EnterGo(c, [ o1 EXCEPT
                        !.pc = "save",
                        !.arg = Some(responseData),
                        !.upd = Some(completedRecord(
                                       existingRecord[1], responseData,
                                       cfg.maxResponseBodySize, now)) ])
  /\ UNCHANGED << cfg, blob, initPc, admin, history, oldCount, issued, nextId, now >>

\* completeRequest: redis.saveRequestHistory(updatedRecord) takes effect (or
\* raises, which is caught) and the call returns.
CompleteSave(c, ok) ==
  /\ ops[c].kind = "complete" /\ ops[c].pc = "save"
  /\ LET o == ops[c]
         o1 == [ o EXCEPT !.calls = Append(@, Call("saveRequestHistory", ok, 0)) ]
     IN
     /\ history' = IF ok THEN saveRequestHistory(o.upd[1]) ELSE history
     /\ Return(c, o1, None)
  /\ UNCHANGED << cfg, blob, initPc, admin, oldCount, issued, nextId, ends, now >>

\* failRequest(requestId, errorData) up to the answer of
\* redis.getRequestHistory and the code that follows it.
FailRequest(c, requestId, errorData, ok) ==
  /\ ~InProgress(ops[c])
  /\ ends' = ends + 1
  /\ LET o == [ Idle EXCEPT !.kind = "fail", !.id = requestId ]
         o1 == [ o EXCEPT !.calls = << Call("getRequestHistory", ok, 0) >> ]
         existingRecord == getRequestHistory(requestId)
     IN
     IF failSkips(requestId)
       THEN EnterReturn(c, o, None)
       ELSE IF ~ok \/ existingRecord = None
         THEN EnterReturn(c, o1, None)
         ELSE EnterGo(c, [ o1 EXCEPT
                        !.pc = "save",
                        !.arg = Some(errorData),
                        !.upd = Some(failedRecord(existingRecord[1],
                                                  errorData, now)) ])
  /\ UNCHANGED << cfg, blob, initPc, admin, history, oldCount, issued, nextId, now >>

\* failRequest: redis.saveRequestHistory(updatedRecord) takes effect (or
\* raises, which is caught) and the call returns.
FailSave(c, ok) ==
  /\ ops[c].kind = "fail" /\ ops[c].pc = "save"
  /\ LET o == ops[c]
         o1 == [ o EXCEPT !.calls = Append(@, Call("saveRequestHistory", ok, 0)) ]
     IN
     /\ history' = IF ok THEN saveRequestHistory(o.upd[1]) ELSE history
     /\ Return(c, o1, None)
  /\ UNCHANGED << cfg, blob, initPc, admin, oldCount, issued, nextId, ends, now >>

\* deleteRequest(requestId): redis.deleteRequestHistory takes effect and its
\* answer is returned, or it raises and false is returned.
DeleteRequest(c, requestId, ok) ==
  /\ ~InProgress(ops[c])
  /\ LET o == [ Idle EXCEPT !.kind = "delete", !.id = requestId,
                 !.calls = << Call("deleteRequestHistory", ok, 0) >> ]
     IN
     /\ history' = IF ok THEN deleteRequestHistory(requestId) ELSE history
     /\ EnterReturn(c, o, Some(ok /\ getRequestHistory(requestId) # None))
  /\ ends' = ends + 1
  /\ UNCHANGED << cfg, blob, initPc, admin, oldCount, issued, nextId, now >>

\* getRequestHistory's catch: `return []`.
listOnError == << >>

\* getRequestDetails's catch: `return null`.
detailsOnError == None

\* Variant: a stats shape that counts one request.
statsOnError_One ==
  [ totalRequests |-> 1, successRequests |-> 0, failedRequests |-> 0,
    totalTokens |-> 0, avgDuration |-> 0, modelStats |-> << >>,
    statusStats |-> << >> ]

\* getRequestStats's catch: the all-zero stats with empty tables.
statsOnError ==
  [ totalRequests |-> 0, successRequests |-> 0, failedRequests |-> 0,
    totalTokens |-> 0, avgDuration |-> 0, modelStats |-> << >>,
    statusStats |-> << >> ]

\* getRequestHistory(options): the store's list is returned, or it raises
\* and the empty list is.
GetRequestHistory(c, ok) ==
  /\ ~InProgress(ops[c])
  /\ LET o == [ Idle EXCEPT !.kind = "list",
                 !.calls = << Call("getRequestHistoryList", ok, 0) >> ]
     IN EnterReturn(c, o, Some(IF ok THEN getRequestHistoryList ELSE listOnError))
  /\ ends' = ends + 1
  /\ UNCHANGED << cfg, blob, initPc, admin, history, oldCount, issued, nextId, now >>

\* getRequestDetails(requestId): the store's answer (the record or null) is
\* returned, or it raises and null is.
GetRequestDetails(c, requestId, ok) ==
  /\ ~InProgress(ops[c])
  /\ LET o == [ Idle EXCEPT !.kind = "details", !.id = requestId,
                 !.calls = << Call("getRequestHistory", ok, 0) >> ]
     IN EnterReturn(c, o, Some(IF ok THEN getRequestHistory(requestId)
                                ELSE detailsOnError))
  /\ ends' = ends + 1
  /\ UNCHANGED << cfg, blob, initPc, admin, history, oldCount, issued, nextId, now >>

\* getRequestStats(apiKeyId): the store's stats are returned, or it raises
\* and the all-zero stats are.
GetRequestStats(c, apiKeyId, ok) ==
  /\ ~InProgress(ops[c])
  /\ LET o == [ Idle EXCEPT !.kind = "stats", !.key = apiKeyId,
                 !.calls = << Call("getRequestHistoryStats", ok, 0) >> ]
     IN EnterReturn(c, o, Some(IF ok THEN getRequestHistoryStats(apiKeyId)
                                ELSE statsOnError))
  /\ ends' = ends + 1
  /\ UNCHANGED << cfg, blob, initPc, admin, history, oldCount, issued, nextId, now >>

\* sanitizeHeaders(headers) is called and returns.
SanitizeHeaders(headers) ==
  /\ last' = [ Idle EXCEPT !.kind = "sanitize", !.pc = "done",
                           !.arg = Some(headers),
                           !.ret = Some(sanitizeHeaders(headers)) ]
  /\ UNCHANGED << cfg, blob, initPc, admin, history, oldCount, ops, issued,
                  nextId, ends, now >>

\* sanitizeHeaders is called on the headers at hand.
SanitizeFirst ==
  /\ last.kind = "none"
  /\ SanitizeHeaders(last.arg[1])

\* sanitizeHeaders is called on the mapping its last call returned.
SanitizeAgain ==
  /\ last.kind = "sanitize"
  /\ SanitizeHeaders(last.ret)

\* The clock advances.
Tick ==
  /\ now' = now + 1
  /\ UNCHANGED << cfg, blob, initPc, admin, history, oldCount, ops, last,
                  issued, nextId, ends >>

\* --------------------------------------------------- configuration actions

\* initializeConfig: redis.get('request_history_config') answers.  A raise is
\* caught inside loadConfigFromRedis, which then returns null like an absent
\* blob; with a blob the tunables are merged from it, without one they are
\* the defaults and saveConfigToRedis is called with them.
InitLoad(ok) ==
  /\ initPc = "load"
  /\ LET savedConfig == IF ok THEN blob ELSE None
     IN
     IF savedConfig # None
       THEN /\ cfg' = mergeSaved(savedConfig[1])
            /\ initPc' = "done"
       ELSE /\ cfg' = defaultConfig
            /\ initPc' = "save"
  /\ UNCHANGED << blob, admin, history, oldCount, ops, last, issued, nextId, ends, now >>

\* initializeConfig: saveConfigToRedis's redis.set takes effect (or raises,
\* which is caught); the config written is the one read when it was called.
InitSave(ok) ==
  /\ initPc = "save"
  /\ blob' = IF ok THEN Some(defaultConfig) ELSE blob
  /\ initPc' = "done"
  /\ UNCHANGED << cfg, admin, history, oldCount, ops, last, issued, nextId, ends, now >>

\* No updateConfig call in progress, none made yet.
AdminIdle == [ pc |-> "idle", arg |-> None, config |-> None, ret |-> None ]

\* updateConfig(newConfig) up to its await: the valid fields are applied in
\* memory and saveConfigToRedis builds the config object to write (arg keeps
\* the argument of the call in progress).
UpdateConfig(newConfig) ==
  /\ admin.pc = "idle"
  /\ cfg' = applyUpdate(cfg, newConfig)
  /\ admin' = [ pc |-> "set", arg |-> Some(newConfig), config |-> Some(cfg'),
                ret |-> None ]
  /\ UNCHANGED << blob, initPc, history, oldCount, ops, last, issued, nextId, ends, now >>

\* updateConfig: redis.set takes effect (or raises, which saveConfigToRedis
\* catches, returning false); updateConfig returns what it returned.
UpdateSave(ok) ==
  /\ admin.pc = "set"
  /\ blob' = IF ok THEN admin.config ELSE blob
  /\ admin' = [ AdminIdle EXCEPT !.ret = Some(ok) ]
  /\ UNCHANGED << cfg, initPc, history, oldCount, ops, last, issued, nextId, ends, now >>

\* ------------------------------------------------------------ specification

\* The cap in force once the blob b has been loaded.
CapOf(b) == mergeSaved(IF b = None THEN unsetConfig ELSE b[1]).maxRecordsPerKey[1]

\* The state after construction: the tunables unassigned, initializeConfig at
\* its first await, no call made; the store holds one of the blobs and, per
\* owner, cap + d earlier records for a d of that owner's deltas.
InitWith(callers, blobs, deltas) ==
  /\ cfg = unsetConfig
  /\ blob \in blobs
  /\ initPc = "load"
  /\ admin = AdminIdle
  /\ history = << >>
  /\ \E f \in [ Keys -> UNION { deltas[k] : k \in Keys } ] :
       /\ \A k \in Keys : f[k] \in deltas[k]
       /\ oldCount = [ k \in Keys |-> CapOf(blob) + f[k] ]
  /\ ops = [ c \in callers |-> Idle ]
  /\ last = Idle
  /\ issued = {}
  /\ nextId = 1
  /\ ends = 0
  /\ now = ClockStart

\* The steps of initializeConfig.
LoadNext(oks) ==
  \/ \E ok \in oks : InitLoad(ok)
  \/ \E ok \in oks : InitSave(ok)

\* The steps of updateConfig.
UpdateNext(oks, updates) ==
  \/ \E newConfig \in updates : UpdateConfig(newConfig)
  \/ \E ok \in oks : UpdateSave(ok)

\* The callers are interchangeable (a caller between calls keeps nothing), so
\* a new call is given to the first caller that is free.
FirstFree(c) ==
  ~InProgress(ops[c]) /\ \A d \in Callers : d < c => InProgress(ops[d])

\* The steps of startRequest; at most n calls reach the store.
StartNext(oks, keys, n) ==
  \/ /\ startSkips \/ nextId <= n
     /\ \E c \in Callers, apiKeyId \in keys, ok \in oks :
          FirstFree(c) /\ StartRequest(c, apiKeyId, ok)
  \/ \E c \in Callers, ok \in oks : StartCount(c, ok)
  \/ \E c \in Callers, ok \in oks : StartTrim(c, ok)

\* The steps of completeRequest and failRequest, called with the ids the
\* callers hold or one of others; at most MaxEnds calls are made.
EndNext(oks, others, responses, errors) ==
  \/ /\ ends < MaxEnds
     /\ \E c \in Callers, requestId \in issued \cup others,
           responseData \in responses, ok \in oks :
          FirstFree(c) /\ CompleteRequest(c, requestId, responseData, ok)
  \/ \E c \in Callers, ok \in oks : CompleteSave(c, ok)
  \/ /\ ends < MaxEnds
     /\ \E c \in Callers, requestId \in issued \cup others,
           errorData \in errors, ok \in oks :
          FirstFree(c) /\ FailRequest(c, requestId, errorData, ok)
  \/ \E c \in Callers, ok \in oks : FailSave(c, ok)

\* The steps of deleteRequest, called with the ids the callers hold; its
\* calls count among the MaxEnds.
DeleteNext(oks) ==
  /\ ends < MaxEnds
  /\ \E c \in Callers, requestId \in issued, ok \in oks :
       FirstFree(c) /\ DeleteRequest(c, requestId, ok)

\* The steps of startRequest called with one of datas; at most n calls
\* reach the store.
StartOfNext(oks, datas, n) ==
  \/ /\ startSkips \/ nextId <= n
     /\ \E c \in Callers, requestData \in datas, ok \in oks :
          FirstFree(c) /\ StartRequestOf(c, requestData, ok)
  \/ \E c \in Callers, ok \in oks : StartCount(c, ok)
  \/ \E c \in Callers, ok \in oks : StartTrim(c, ok)

\* The steps of the read-only queries, called with the ids the callers hold
\* and one the store has never seen; their calls count among the MaxEnds.
QueryNext(oks) ==
  /\ ends < MaxEnds
  /\ \/ \E c \in Callers, ok \in oks : FirstFree(c) /\ GetRequestHistory(c, ok)
     \/ \E c \in Callers, requestId \in issued \cup {nextId}, ok \in oks :
          FirstFree(c) /\ GetRequestDetails(c, requestId, ok)
     \/ \E c \in Callers, apiKeyId \in Keys, ok \in oks :
          FirstFree(c) /\ GetRequestStats(c, apiKeyId, ok)

\* The clock advances, up to MaxClock past its start.
ClockNext == now < ClockStart + MaxClock /\ Tick

\* A persisted configuration with logging on and the low cap, and one with
\* logging off.
SavedOn ==
  Some(Partial(Some(TRUE), Some(LowCap), Some(DefaultMaxRequestBodySize),
               Some(DefaultMaxResponseBodySize)))
SavedOff ==
  Some(Partial(Some(FALSE), Some(LowCap), Some(DefaultMaxRequestBodySize),
               Some(DefaultMaxResponseBodySize)))

\* A persisted configuration whose cap is not positive.
SavedBad ==
  Some(Partial(Some(TRUE), Some(0 - 5), Some(DefaultMaxRequestBodySize),
               Some(DefaultMaxResponseBodySize)))

\* Persisted configurations with small body limits, with a response limit
\* above the preview length, and with limits of one character.
SavedSmall ==
  Some(Partial(Some(TRUE), Some(DefaultMaxRecordsPerKey), Some(SmallSize),
               Some(SmallSize)))
SavedPreview ==
  Some(Partial(Some(TRUE), Some(DefaultMaxRecordsPerKey), Some(SmallSize),
               Some(PreviewLength + SmallSize)))
SavedTiny ==
  Some(Partial(Some(TRUE), Some(DefaultMaxRecordsPerKey), Some(LowCap),
               Some(LowCap)))

\* A string of n plain characters.
Text(n) == [ i \in 1 .. n |-> << "a", "b", "c" >>[(i % 3) + 1] ]

\* Request bodies that are tried: none; a short one; {messages} whose JSON
\* text is as long as SmallSize, and one character longer; a long one with
\* a model and a system text and no messages; and one with empty messages.
RequestBodies ==
  { Undefined,
    Obj(<< Entry(ModelKey, Str(Text(2))), Entry(MessagesKey, Str(Text(3))) >>),
    Obj(<< Entry(MessagesKey, Str(Text(SmallSize - 15))) >>),
    Obj(<< Entry(MessagesKey, Str(Text(SmallSize - 14))),
           Entry(ModelKey, Str(Text(2))) >>),
    Obj(<< Entry(ModelKey, Str(Text(2))),
           Entry(SystemKey, Str(Text(SmallSize))) >>),
    Obj(<< Entry(MessagesKey, Str(<< >>)),
           Entry(SystemKey, Str(Text(SmallSize))) >>) }

\* Response bodies that are tried: none; the empty string; strings whose
\* JSON text is as long as SmallSize, one character longer, and one
\* character longer than PreviewLength + SmallSize; and a short object.
ResponseBodies ==
  { Undefined,
    Str(<< >>),
    Str(Text(SmallSize - 2)),
    Str(Text(SmallSize - 1)),
    Str(Text(PreviewLength + SmallSize - 1)),
    Obj(<< Entry(TypeKey, Str(Text(2))) >>) }

\* The requestData objects that carry them, for owner k1.
RequestDatas ==
  { RequestData("k1", Str(Text(4)), Undefined, requestBody,
                Some(<< Entry(Authorization, "secret") >>)) :
      requestBody \in RequestBodies }

\* Earlier records per owner, as distances from the cap: k1 stands just
\* below, at or just above the cleanup threshold, k2 at it.
AroundThreshold ==
  [ k \in Keys |->
      IF k = "k1" THEN { CleanupBuffer - 1, CleanupBuffer, CleanupBuffer + 1 }
      ELSE { CleanupBuffer } ]

\* ... with no owner above the threshold ...
UpToThreshold ==
  [ k \in Keys |->
      IF k = "k1" THEN { CleanupBuffer - 1, CleanupBuffer }
      ELSE { CleanupBuffer } ]

\* ... and with k1 just below it.
BelowThreshold ==
  [ k \in Keys |-> IF k = "k1" THEN { CleanupBuffer - 1 } ELSE { CleanupBuffer } ]

\* The recorder's life cycle, one call at a time and the store answering
\* every call: records are started, completed, failed and deleted while the
\* clock advances.
Init == InitWith(1 .. 1, {None, SavedOn}, UpToThreshold)

Next ==
  \/ LoadNext({TRUE})
  \/ StartNext({TRUE}, {NoKey, "k1"}, FewRequests)
  \/ EndNext({TRUE}, {EmptyId}, ResponseDatas, ErrorDatas)
  \/ DeleteNext({TRUE})
  \/ ClockNext

Spec == Init /\ [][Next]_vars

\* Retention under concurrent startRequest calls, the store answering or
\* raising.
InitRetention == InitWith(1 .. 2, {None, SavedOn}, AroundThreshold)

NextRetention ==
  \/ LoadNext(BOOLEAN)
  \/ StartNext(BOOLEAN, RequestKeys, MaxRequests)

SpecRetention == InitRetention /\ [][NextRetention]_vars

\* Retention with a fixed configuration, the store answering every call and
\* every request carrying an owner key.
InitFixed == InitWith(1 .. 3, {None, SavedOn}, UpToThreshold)

NextFixed ==
  \/ LoadNext({TRUE})
  \/ StartNext({TRUE}, Keys, MaxRequests)

SpecFixed == InitFixed /\ [][NextFixed]_vars

\* The recorder while the configuration is updated, the store answering
\* every call.
InitConfig == InitWith(1 .. 2, {None, SavedOff}, BelowThreshold)

NextConfig ==
  \/ LoadNext({TRUE})
  \/ UpdateNext({TRUE}, ConfigUpdates)
  \/ StartNext({TRUE}, {"k1"}, FewRequests)
  \/ EndNext({TRUE}, {},
             { ResponseData(Some(200), Some(1), Some(2), Some(4), Some(8)) },
             { ErrorData(None, None) })

SpecConfig == InitConfig /\ [][NextConfig]_vars

\* The queries and deleteRequest beside the recorder, the store answering the
\* recorder and answering or raising for the queries and deleteRequest.
InitQuery == InitWith(1 .. 2, {None}, UpToThreshold)

NextQuery ==
  \/ LoadNext({TRUE})
  \/ StartNext({TRUE}, {"k1"}, FewRequests)
  \/ EndNext({TRUE}, {},
             { ResponseData(Some(200), Some(1), Some(2), Some(4), Some(8)) },
             { ErrorData(None, None) })
  \/ QueryNext(BOOLEAN)
  \/ DeleteNext(BOOLEAN)

SpecQuery == InitQuery /\ [][NextQuery]_vars

\* startRequest and completeRequest with bodies around the size limits, the
\* store answering every call; as many completeRequest calls are made as
\* startRequest calls reach the store.
InitRequest ==
  InitWith(1 .. 1, {None, SavedSmall, SavedPreview, SavedTiny}, UpToThreshold)

NextRequest ==
  \/ LoadNext({TRUE})
  \/ StartOfNext({TRUE}, RequestDatas, FewRequests)
  \/ /\ ends < FewRequests
     /\ \E c \in Callers, requestId \in issued, responseBody \in ResponseBodies :
          /\ FirstFree(c)
          /\ CompleteRequest(
               c, requestId,
               WithBody(ResponseData(Some(200), Some(1), None, None, None),
                        responseBody),
               TRUE)
  \/ \E c \in Callers : CompleteSave(c, TRUE)

SpecRequest == InitRequest /\ [][NextRequest]_vars

\* The terminal calls and deleteRequest beside startRequest, two callers at
\* a time and the store answering every call, under the default cap and
\* under the low one; the requests carry a name, a model, a body and
\* headers, the responses a body.
InitTerminal == InitWith(1 .. 2, {None, SavedOn}, UpToThreshold)

NextTerminal ==
  \/ LoadNext({TRUE})
  \/ StartOfNext({TRUE},
                 { RequestData("k1", Str(Text(4)), Str(Text(3)),
                               Obj(<< Entry(MessagesKey, Str(Text(3))) >>),
                               Some(<< Entry(Authorization, "secret"),
                                       Entry(Accept, "gzip") >>)) },
                 MaxRequests)
  \/ EndNext({TRUE}, {},
             { WithBody(ResponseData(Some(200), Some(1), None, None, None),
                        Str(Text(2))) },
             { ErrorData(Some("boom"), Some(429)) })
  \/ DeleteNext({TRUE})

SpecTerminal == InitTerminal /\ [][NextTerminal]_vars

\* The requestData objects whose headers are tried in stored records: none,
\* and mappings of sensitive names in several casings beside harmless ones
\* and __proto__.
HeaderDatas ==
  { RequestData("k1", Undefined, Undefined, Undefined, headers) :
      headers \in
        { None,
          Some(<< Entry(Authorization, "secret"), Entry(Accept, "gzip") >>),
          Some(<< Entry(<< "x", "-", "a", "p", "i", "-", "k", "e", "y" >>,
                        "secret"),
                  Entry(<< "C", "O", "O", "K", "I", "E" >>, "secret"),
                  Entry(<< "C", "o", "o", "k", "i", "e", "s" >>, "gzip") >>),
          Some(<< Entry(ProtoKey, "secret"),
                  Entry(<< "S", "e", "t", "-", "C", "o", "o", "k", "i", "e" >>,
                        "secret"),
                  Entry(<< "P", "r", "o", "x", "y", "-", "A", "u", "t", "h",
                           "o", "r", "i", "z", "a", "t", "i", "o", "n" >>,
                        "secret") >>) } }

\* Records with headers from their start through the terminal calls, two
\* callers at a time and the store answering every call.
InitStored == InitWith(1 .. 2, {None}, UpToThreshold)

NextStored ==
  \/ LoadNext({TRUE})
  \/ StartOfNext({TRUE}, HeaderDatas, FewRequests)
  \/ EndNext({TRUE}, {},
             { WithBody(ResponseData(Some(200), Some(1), None, None, None),
                        Str(Text(2))) },
             { ErrorData(Some("boom"), Some(429)) })

SpecStored == InitStored /\ [][NextStored]_vars

\* sanitizeHeaders on its own: the state after construction, with one of
\* the inputs at hand (in last.arg) for the call to come; it is called on
\* that input, and then on what it has returned.
InitHeaders ==
  /\ cfg = unsetConfig
  /\ blob = None
  /\ initPc = "load"
  /\ admin = AdminIdle
  /\ history = << >>
  /\ oldCount = [ k \in Keys |-> 0 ]
  /\ ops = [ c \in 1 .. 1 |-> Idle ]
  /\ \E headers \in HeaderInputs : last = [ Idle EXCEPT !.arg = Some(headers) ]
  /\ issued = {}
  /\ nextId = 1
  /\ ends = 0
  /\ now = ClockStart

NextHeaders == SanitizeFirst \/ SanitizeAgain

SpecHeaders == InitHeaders /\ [][NextHeaders]_vars

\* The configuration on its own: the initial load and the administrator's
\* updates, the store answering or raising, over a store that holds no
\* configuration, a valid one or one with a cap that is not positive.
InitAdmin == InitWith(1 .. 1, {None, SavedOff, SavedBad}, BelowThreshold)

NextAdmin == LoadNext(BOOLEAN) \/ UpdateNext(BOOLEAN, MixedUpdates)

SpecAdmin == InitAdmin /\ [][NextAdmin]_vars

\* ------------------------------------------------------- what the claims use

\* The record stored under requestId is there, with this status.
HasStatus(requestId, status) ==
  /\ getRequestDetails(requestId) # None
  /\ getRequestDetails(requestId)[1].status = status

\* The record stored under the id of the call that returned last (or None).
LastRecord == getRequestDetails(last.id)

\* The cap in force: the tunable once assigned, before that the one the load
\* will assign.
CurrentCap ==
  IF cfg.maxRecordsPerKey = None THEN CapOf(blob) ELSE cfg.maxRecordsPerKey[1]

\* Every store call of the call that returned last was answered.
AllAnswered == \A i \in DOMAIN last.calls : last.calls[i].ok

\* The call that returned last ran removeOldestRequestHistory, and the store
\* answered.
LastTrimmed == Len(last.calls) = 3 /\ last.calls[3].ok

\* This step, a startRequest call returns an id.
StartReturnsId == last' # last /\ last'.kind = "start" /\ last'.ret # None

\* This step, caller c's startRequest gets its record count (or the error).
CountStep(c) ==
  ops[c].kind = "start" /\ ops[c].pc = "count" /\ ops'[c].pc # "count"

\* This step, caller c's startRequest gets the answer of its trim.
TrimStep(c) ==
  ops[c].kind = "start" /\ ops[c].pc = "trim" /\ ops'[c].pc # "trim"

\* --------------------------------------------------------------------- C1

\* C1, as stated: whenever startRequest returns an id, the record stored under
\* that id is there and 'pending' right after the return.
C1_Stated ==
  [][ StartReturnsId => HasStatus(last.ret[1], "pending")' ]_vars

\* C1, amended: whenever a startRequest call that no other call overlapped
\* returns an id - its insert having triggered a trim or not - the record
\* stored under that id is there and 'pending' right after the return.
C1_Alone ==
  [][ StartReturnsId /\ last'.alone => HasStatus(last.ret[1], "pending")' ]_vars

\* A startRequest call that ran alone, trimmed and returned an id whose record
\* is 'pending'.
C1_Witness ==
  /\ last.kind = "start" /\ last.ret # None /\ last.alone /\ LastTrimmed
  /\ HasStatus(last.ret[1], "pending")

\* --------------------------------------------------------------------- C6

\* C6: one run of enforceRecordLimit.  Getting the count removes nothing; the
\* run goes on to trim exactly when the count read is above maxRecordsPerKey
\* + 100, and then asks for count - maxRecordsPerKey records to be removed;
\* the trim, when the owner's count is still the one read, leaves exactly
\* maxRecordsPerKey records, and a trim the store refused removes nothing; no
\* other step of startRequest removes a record.
C6_EnforceRecordLimit ==
  [][ /\ \A c \in Callers :
           CountStep(c) =>
             /\ history' = history /\ oldCount' = oldCount
             /\ ops'[c].pc = "trim" =>
                  /\ getRequestHistoryCount(ops[c].key) > cfg.maxRecordsPerKey[1] + CleanupBuffer
                  /\ ops'[c].excess =
                       Some(getRequestHistoryCount(ops[c].key) - cfg.maxRecordsPerKey[1])
             /\ (ops'[c].pc = "idle" /\ last'.calls[2].ok) =>
                  getRequestHistoryCount(ops[c].key) <= cfg.maxRecordsPerKey[1] + CleanupBuffer
      /\ \A c \in Callers :
           TrimStep(c) =>
             /\ last'.calls[3].n = ops[c].cnt[1] - ops[c].lim[1]
             /\ (last'.calls[3].ok /\ getRequestHistoryCount(ops[c].key) = ops[c].cnt[1]) =>
                  getRequestHistoryCount(last.key)' = ops[c].lim[1]
             /\ ~last'.calls[3].ok => (history' = history /\ oldCount' = oldCount)
      /\ (\E k \in Keys : getRequestHistoryCount(k)' < getRequestHistoryCount(k)) =>
           \E c \in Callers : TrimStep(c)
    ]_vars

\* A run of enforceRecordLimit has trimmed and its owner is left with exactly
\* maxRecordsPerKey records.
C6_Witness ==
  /\ last.kind = "start" /\ LastTrimmed /\ last.alone
  /\ getRequestHistoryCount(last.key) = CurrentCap

\* --------------------------------------------------------------------- C7

\* This step, a startRequest call returns that no other call overlapped and
\* whose store calls were all answered.
QuietStartReturns == StartReturnsId /\ last'.alone /\ AllAnswered'

\* C7, as stated, M being maxRecordsPerKey: a startRequest for an owner that
\* has M + 101 records removes exactly 101 and leaves M; one for an owner that
\* has M + 99 records trims nothing.
C7_Stated ==
  [][ QuietStartReturns =>
        /\ last'.pre = CurrentCap + CleanupBuffer + 1 =>
             /\ LastTrimmed'
             /\ last'.calls[3].n = CleanupBuffer + 1
             /\ getRequestHistoryCount(last.key)' = CurrentCap
        /\ last'.pre = CurrentCap + CleanupBuffer - 1 =>
             /\ Len(last'.calls) = 2
             /\ getRequestHistoryCount(last.key)' = last'.pre + 1
    ]_vars

\* C7, amended: a startRequest for an owner that has M + 100 records (its
\* insert is the M + 101st) removes exactly 101 and leaves M; one for an owner
\* that has M + 101 records removes 102 and leaves M; one for an owner that
\* has M + 99 records trims nothing and leaves M + 100.
C7_Threshold ==
  [][ QuietStartReturns =>
        /\ last'.pre = CurrentCap + CleanupBuffer =>
             /\ LastTrimmed'
             /\ last'.calls[3].n = CleanupBuffer + 1
             /\ getRequestHistoryCount(last.key)' = CurrentCap
        /\ last'.pre = CurrentCap + CleanupBuffer + 1 =>
             /\ LastTrimmed'
             /\ last'.calls[3].n = CleanupBuffer + 2
             /\ getRequestHistoryCount(last.key)' = CurrentCap
        /\ last'.pre = CurrentCap + CleanupBuffer - 1 =>
             /\ Len(last'.calls) = 2
             /\ getRequestHistoryCount(last.key)' = last'.pre + 1
    ]_vars

\* A startRequest that found M + 100 records has removed 101 and left M.
C7_Witness ==
  /\ last.kind = "start" /\ last.alone /\ LastTrimmed
  /\ last.pre = CurrentCap + CleanupBuffer
  /\ last.calls[3].n = CleanupBuffer + 1
  /\ getRequestHistoryCount(last.key) = CurrentCap

\* --------------------------------------------------------------------- C8

\* Nothing is in progress: every caller is between calls.
AtRest == \A c \in Callers : ~InProgress(ops[c])

\* C8: under a fixed configuration and an answering store, with every record
\* carrying an owner key, whenever no startRequest is in progress every owner
\* has at most maxRecordsPerKey + 100 records.
C8_Bounded ==
  AtRest => \A k \in Keys : getRequestHistoryCount(k) <= CurrentCap + CleanupBuffer

\* At rest after overlapping startRequest calls, the last of which trimmed.
C8_Witness ==
  /\ AtRest /\ last.kind = "start" /\ ~last.alone /\ LastTrimmed
  /\ nextId > MaxRequests

\* --------------------------------------------------------------------- C9

\* C9, as stated: under a fixed configuration, every trim that takes effect
\* leaves its owner with at least maxRecordsPerKey records.
C9_Stated ==
  [][ \A c \in Callers :
        (TrimStep(c) /\ last'.calls[3].ok) =>
          getRequestHistoryCount(last.key)' >= CurrentCap ]_vars

\* -------------------------------------------------------------------- C10

\* This step, a startRequest call whose record was saved returns after the
\* store refused one of enforceRecordLimit's calls.
RetentionFailedReturn ==
  /\ last' # last /\ last'.kind = "start"
  /\ Len(last'.calls) >= 2 /\ last'.calls[1].ok
  /\ ~last'.calls[Len(last'.calls)].ok

Counted(x) == IF x = None THEN 0 ELSE x[1]

\* This step, caller c's completeRequest gets the answer of its save.
CompleteSaveStep(c) ==
  ops[c].kind = "complete" /\ ops[c].pc = "save" /\ ops'[c].pc # "save"

\* This step, caller c's failRequest gets the answer of its save.
FailSaveStep(c) ==
  ops[c].kind = "fail" /\ ops[c].pc = "save" /\ ops'[c].pc # "save"

\* This step, a call of this kind (completeRequest or failRequest) returns:
\* from its save, or at once.
EndReturns(kind) ==
  \/ \E c \in Callers :
       ops[c].kind = kind /\ InProgress(ops[c]) /\ ~InProgress(ops'[c])
  \/ /\ ends' # ends /\ last'.kind = kind
     /\ \A c \in Callers : InProgress(ops'[c]) => InProgress(ops[c])

\* The record r is a 'success' whose duration is endTime - startTime >= 0 and
\* whose totalTokens is the sum of its four counters.
IsSuccess(r) ==
  /\ r.status = "success"
  /\ r.endTime # None /\ r.duration = Some(r.endTime[1] - r.startTime)
  /\ r.duration[1] >= 0
  /\ r.totalTokens = Some(Counted(r.inputTokens) + Counted(r.outputTokens)
                          + Counted(r.cacheCreateTokens) + Counted(r.cacheReadTokens))

\* The counters of record r are those of responseData, a missing one 0.
CountersOf(r, responseData) ==
  /\ r.inputTokens = Some(Counted(responseData.inputTokens))
  /\ r.outputTokens = Some(Counted(responseData.outputTokens))
  /\ r.cacheCreateTokens = Some(Counted(responseData.cacheCreateTokens))
  /\ r.cacheReadTokens = Some(Counted(responseData.cacheReadTokens))

\* C2, as stated: whenever completeRequest(id, data) returns, for an id that
\* startRequest returned, the record stored under id is a 'success' with
\* duration = endTime - startTime >= 0 and totalTokens the sum of the four
\* counters.
C2_Stated ==
  [][ (EndReturns("complete") /\ last'.id \in issued) =>
        (LastRecord' # None /\ IsSuccess(LastRecord[1])') ]_vars

\* C2, amended: whenever a completeRequest(id, data) that found the record
\* (logging on, the store answering) returns from its save, the record stored
\* under id is a 'success' with duration = endTime - startTime >= 0, its
\* counters those of data (a missing one 0) and totalTokens their sum.
C2_Found ==
  [][ \A c \in Callers :
        (CompleteSaveStep(c) /\ last'.calls[2].ok) =>
          /\ LastRecord' # None
          /\ IsSuccess(LastRecord[1])'
          /\ CountersOf(LastRecord'[1], ops[c].arg[1]) ]_vars

\* A completeRequest has returned from its save and the record is a
\* 'success' that totals four supplied counters.
C2_Witness ==
  /\ last.kind = "complete" /\ Len(last.calls) = 2 /\ last.calls[2].ok
  /\ LastRecord # None /\ IsSuccess(LastRecord[1])
  /\ LastRecord[1].totalTokens = Some(1 + 2 + 4 + 8)

\* --------------------------------------------------------------------- C3

\* C3, as stated: whenever failRequest(id, data) returns, for an id that
\* startRequest returned, the record stored under id is an 'error' whose
\* statusCode is the supplied one, 500 when none is, and whose error is the
\* supplied message, 'Unknown error' when none is.
C3_Stated ==
  [][ /\ (EndReturns("fail") /\ last'.id \in issued) =>
           HasStatus(last.id, "error")'
      /\ \A c \in Callers :
           FailSaveStep(c) =>
             /\ LastRecord'[1].statusCode =
                  IF ops[c].arg[1].statusCode = None THEN Some(DefaultErrorStatus)
                  ELSE ops[c].arg[1].statusCode
             /\ LastRecord'[1].error =
                  IF ops[c].arg[1].error = None THEN Some("Unknown error")
                  ELSE ops[c].arg[1].error ]_vars

\* C3, amended: whenever a failRequest(id, data) that found the record
\* (logging on, the store answering) returns from its save, the record stored
\* under id is an 'error' whose statusCode is the supplied one, 500 when none
\* or 0 is, and whose error is the supplied message, 'Unknown error' when none
\* or the empty string is.
C3_Found ==
  [][ \A c \in Callers :
        (FailSaveStep(c) /\ last'.calls[2].ok) =>
          /\ HasStatus(last.id, "error")'
          /\ LastRecord'[1].statusCode =
               IF ops[c].arg[1].statusCode \in { None, Some(0) }
                 THEN Some(DefaultErrorStatus) ELSE ops[c].arg[1].statusCode
          /\ LastRecord'[1].error =
               IF ops[c].arg[1].error \in { None, Some("") }
                 THEN Some("Unknown error") ELSE ops[c].arg[1].error ]_vars

\* A failRequest that was given nothing has returned from its save and the
\* record is an 'error' with the defaults.
C3_Witness ==
  /\ last.kind = "fail" /\ Len(last.calls) = 2 /\ last.calls[2].ok
  /\ HasStatus(last.id, "error")
  /\ LastRecord[1].statusCode = Some(DefaultErrorStatus)
  /\ LastRecord[1].error = Some("Unknown error")

\* --------------------------------------------------------------------- C4

\* C4, as stated: a stored record that is 'success' or 'error' is the same
\* record after any step that leaves it stored - its status and its terminal
\* fields never change again.
C4_Stated ==
  [][ \A requestId \in issued :
        ( /\ getRequestDetails(requestId) # None
          /\ getRequestDetails(requestId)[1].status \in {"success", "error"}
          /\ getRequestDetails(requestId)' # None ) =>
          getRequestDetails(requestId)' = getRequestDetails(requestId) ]_vars

\* --------------------------------------------------------------------- C5

\* Logging is off: enableHistoryLogging is false (or not assigned yet).
Disabled == ~Truthy(cfg.enableHistoryLogging)

\* This step, a call in progress moves on.
Continues ==
  \E c \in Callers : InProgress(ops[c]) /\ ops'[c].pc # ops[c].pc

\* C5: while logging is off, a step that is not the continuation of a call
\* begun earlier brings no recorder call to a store call, returns null with no
\* store call made if it is a startRequest, completeRequest or failRequest,
\* and changes no stored record.
C5_Disabled ==
  [][ (Disabled /\ ~Continues) =>
        /\ \A c \in Callers : InProgress(ops'[c]) => InProgress(ops[c])
        /\ history' = history /\ oldCount' = oldCount
        /\ last' # last =>
             /\ last'.kind \in {"start", "complete", "fail"}
             /\ last'.ret = None /\ last'.calls = << >> ]_vars

\* Logging was switched off and a completeRequest for a stored 'pending'
\* record has returned without a store call; the record is still 'pending'.
C5_Witness ==
  /\ cfg.enableHistoryLogging = Some(FALSE)
  /\ last.kind = "complete" /\ last.id \in issued /\ last.calls = << >>
  /\ HasStatus(last.id, "pending")

\* -------------------------------------------------------------------- C11

\* This step, a startRequest call returns.
StartReturns == last' # last /\ last'.kind = "start"

\* C11: a startRequest whose save the store refused returns null after that
\* one store call - no count is read, nothing is trimmed, no record is
\* stored - and a startRequest returns an id exactly when its save was
\* answered, the record then having been stored under that id.
C11_PersistFailure ==
  [][ StartReturns =>
        /\ (Len(last'.calls) >= 1 /\ ~last'.calls[1].ok) =>
             /\ last'.ret = None
             /\ Len(last'.calls) = 1
             /\ history' = history /\ oldCount' = oldCount
             /\ getRequestDetails(last.id)' = None
        /\ last'.ret # None <=> (Len(last'.calls) >= 1 /\ last'.calls[1].ok)
        /\ last'.ret # None => last'.ret = Some(last'.id) ]_vars

\* A startRequest whose save was refused has returned null, no record stored.
C11_Witness ==
  /\ last.kind = "start" /\ Len(last.calls) = 1 /\ ~last.calls[1].ok
  /\ last.ret = None /\ getRequestDetails(last.id) = None
  /\ last.id # EmptyId

\* -------------------------------------------------------------------- C12

\* This step, no caller's call comes to stand at an await.
NoneSuspends == \A c \in Callers : InProgress(ops'[c]) => InProgress(ops[c])

\* This step, completeRequest or failRequest is called with requestId.
EndCalled(requestId) ==
  /\ ends' # ends
  /\ \/ \E c \in Callers :
          /\ ~InProgress(ops[c]) /\ InProgress(ops'[c])
          /\ ops'[c].id = requestId
     \/ /\ NoneSuspends
        /\ last'.kind \in {"complete", "fail"} /\ last'.id = requestId

\* C12: a completeRequest or failRequest called with an empty id returns
\* without a store call, one called with an id the store holds no record for
\* returns after its read without a write, and in both cases no stored record
\* changes and nothing but undefined comes back.
C12_NothingToUpdate ==
  [][ \A requestId \in issued \cup {EmptyId} :
        ( /\ EndCalled(requestId)
          /\ requestId = EmptyId \/ getRequestHistory(requestId) = None ) =>
          /\ NoneSuspends
          /\ history' = history /\ oldCount' = oldCount
          /\ requestId = EmptyId => last'.calls = << >>
          /\ \A i \in DOMAIN last'.calls :
               last'.calls[i].op = "getRequestHistory"
          /\ last'.ret = None ]_vars

\* A failRequest for an id whose record is gone has returned after its read,
\* and the store still holds no record for the id.
C12_Witness ==
  /\ last.kind = "fail" /\ last.id \in issued
  /\ Len(last.calls) = 1 /\ last.calls[1].op = "getRequestHistory"
  /\ getRequestHistory(last.id) = None

\* -------------------------------------------------------------------- C13

\* C13: a query whose store call raises returns its fixed default -
\* getRequestHistory the empty list, getRequestDetails null, getRequestStats
\* the all-zero stats with empty tables, deleteRequest false, which then
\* removes nothing - and getRequestDetails of an id the store holds no record
\* for returns null; a query changes no stored record.
C13_SafeDefaults ==
  [][ ( /\ ends' # ends /\ NoneSuspends
        /\ last'.kind \in {"list", "details", "stats", "delete"} ) =>
        /\ Len(last'.calls) = 1
        /\ (last'.kind = "list" /\ ~last'.calls[1].ok) =>
             last'.ret = Some(<< >>)
        /\ (last'.kind = "details"
              /\ (~last'.calls[1].ok \/ getRequestHistory(last'.id) = None)) =>
             last'.ret = Some(None)
        /\ (last'.kind = "stats" /\ ~last'.calls[1].ok) =>
             /\ \A f \in { "totalRequests", "successRequests", "failedRequests",
                           "totalTokens", "avgDuration" } : last'.ret[1][f] = 0
             /\ last'.ret[1].modelStats = << >>
             /\ last'.ret[1].statusStats = << >>
        /\ (last'.kind = "delete" /\ ~last'.calls[1].ok) =>
             (last'.ret = Some(FALSE) /\ history' = history)
        /\ last'.kind # "delete" => history' = history ]_vars

\* getRequestStats has returned the all-zero stats after the store raised,
\* for an owner that has a completed record.
C13_Witness ==
  /\ last.kind = "stats" /\ ~last.calls[1].ok
  /\ last.ret[1].totalRequests = 0
  /\ \E i \in OwnedBy(last.key) : history[i].status = "success"

\* -------------------------------------------------------------------- C14

\* updateConfig passes from its call to its save.
UpdateStep == admin.pc = "idle" /\ admin'.pc = "set"

\* The field f of a partial configuration holds a value updateConfig accepts.
ValidField(newConfig, f) ==
  IF f = "enableHistoryLogging"
    THEN newConfig[f] \in { Some(TRUE), Some(FALSE) }
    ELSE Len(newConfig[f]) = 1 /\ newConfig[f][1] > 0

\* C14: updateConfig treats each of the four fields on its own: a field that
\* is valid (a boolean flag; a size or cap that is a number > 0) is applied,
\* a field that is absent or invalid keeps the tunable's previous value, and
\* whatever the other fields are the call goes on to persist the merged
\* configuration.
C14_Independent ==
  [][ UpdateStep =>
        /\ \A f \in DOMAIN cfg :
             cfg'[f] = IF ValidField(admin'.arg[1], f)
                         THEN admin'.arg[1][f] ELSE cfg[f]
        /\ admin'.config = Some(cfg') ]_vars

\* An update with a mistyped flag, a negative cap, a valid request size and
\* a mistyped response size is at its save: only the request size changed.
C14_Witness ==
  /\ admin.pc = "set"
  /\ admin.arg = Some(Partial(MistypedFlag, Some(0 - 5), Some(LowCap + 1),
                              MistypedNumber))
  /\ cfg = [ defaultConfig EXCEPT !.maxRequestBodySize = Some(LowCap + 1) ]

\* -------------------------------------------------------------------- C15

\* A configuration with a boolean flag and three numbers greater than 0.
ValidConfig(c) ==
  /\ c.enableHistoryLogging \in { Some(TRUE), Some(FALSE) }
  /\ \A f \in { "maxRecordsPerKey", "maxRequestBodySize",
                 "maxResponseBodySize" } : Len(c[f]) = 1 /\ c[f][1] > 0

\* C15, as stated, from the moment the initial load has answered: whatever
\* blob the store holds and whatever updates are made, the configuration in
\* memory is valid - a boolean flag and three numbers greater than 0.
C15_Stated == initPc # "load" => ValidConfig(cfg)

\* -------------------------------------------------------------------- C16

\* The configuration the store stands for: the persisted blob, else (for no
\* blob, or a field the blob lacks) the defaults.
Effective == mergeSaved(IF blob = None THEN unsetConfig ELSE blob[1])

\* Neither the initial load nor an updateConfig call is in progress.
ConfigAtRest == initPc = "done" /\ admin.pc = "idle"

\* C16, as stated: whenever no configuration operation is in progress, the
\* four tunables in memory equal those of the persisted configuration.
C16_Stated == ConfigAtRest => cfg = Effective

\* -------------------------------------------------------------------- C17

\* The read of the initial load is answered (or raises).
LoadStep == initPc = "load" /\ initPc' # "load"

\* C17, as stated: the initial load goes on to write the defaults only when
\* the store holds no configuration; while the store holds one, the read
\* either yields it or has failed, and a failed read is followed by no write
\* (the load is over, with the defaults in memory only).
C17_Stated == [][ (LoadStep /\ blob # None) => initPc' = "done" ]_vars

\* -------------------------------------------------------------------- C18

\* C18, as stated: a startRequest that returns while the effective
\* configuration (the persisted blob, else the defaults) has logging on,
\* at whatever stage the initial load is, has had its record saved by the
\* store and returns the record's id.
C18_Stated ==
  [][ (Truthy(Effective.enableHistoryLogging) /\ StartReturns) =>
        /\ Len(last'.calls) >= 1 /\ last'.calls[1].ok
        /\ last'.ret = Some(last'.id) ]_vars

\* -------------------------------------------------------------------- C19

\* The keys of a mapping.
KeysOf(obj) == { obj[i].key : i \in DOMAIN obj }

\* C19, as stated: sanitizeHeaders of null returns the empty mapping, and
\* of a mapping returns one with exactly the same keys, in which a key whose
\* lower-cased form is on the list has the value '[REDACTED]' and any other
\* key the value it had.
C19_Stated ==
  last.kind = "sanitize" =>
    LET headers == last.arg[1]
        sanitized == last.ret[1]
    IN IF headers = None THEN sanitized = << >>
       ELSE /\ KeysOf(sanitized) = KeysOf(headers[1])
            /\ Len(sanitized) = Len(headers[1])
            /\ \A i \in DOMAIN headers[1], j \in DOMAIN sanitized :
                 sanitized[j].key = headers[1][i].key =>
                   sanitized[j].value =
                     IF includes(sensitiveHeaders,
                                 toLowerCase(headers[1][i].key))
                       THEN Redacted ELSE headers[1][i].value

\* -------------------------------------------------------------------- C20

\* C20: sanitizeHeaders is idempotent: applied to the mapping it has
\* returned, it returns that mapping again.
C20_Idempotent ==
  last.kind = "sanitize" => sanitizeHeaders(last.ret) = last.ret[1]

\* sanitizeHeaders has been applied to its own result for a mapping that
\* had a sensitive header with a secret value and a harmless one: both
\* calls returned the same two headers, the first of them redacted.
C20_Witness ==
  /\ last.kind = "sanitize"
  /\ last.arg = Some(last.ret)
  /\ last.ret = Some(<< Entry(Authorization, Redacted),
                        Entry(Accept, "gzip") >>)

\* -------------------------------------------------------------------- C21

\* Caller c's startRequest has its record saved this step.
StartSaved(c) ==
  /\ ~InProgress(ops[c])
  /\ ops'[c].kind = "start" /\ ops'[c].pc = "count"

\* The names of an object's properties that hold a value.
DefinedKeys(obj) ==
  { obj.o[i].key : i \in { j \in DOMAIN obj.o : obj.o[j].value.t # "undefined" } }

\* C21, as stated: a request body whose JSON text is longer than
\* maxRequestBodySize is stored with its messages replaced by the marker
\* '[TRUNCATED - Large Messages]' and its other fields as they were; any
\* other body is stored unchanged.
C21_Stated ==
  [][ \A c \in Callers : StartSaved(c) =>
        LET requestBody == ops'[c].arg[1].requestBody
            stored == history'[Len(history')].requestBody
        IN IF /\ requestBody.t = "object"
              /\ Len(stringify(requestBody)) > cfg.maxRequestBodySize[1]
             THEN /\ getProperty(stored, MessagesKey) = Str(TruncationMarker)
                  /\ DefinedKeys(stored) = DefinedKeys(requestBody) \cup {MessagesKey}
                  /\ \A k \in DefinedKeys(requestBody) \ {MessagesKey} :
                       getProperty(stored, k) = getProperty(requestBody, k)
             ELSE stored = requestBody ]_vars


\* -------------------------------------------------------------------- C22

\* The record r holds, as its responseBody, the summary of a body whose JSON
\* text is text: type 'truncated', originalLength the length of text, and
\* preview the first 1000 characters of text followed by '...'.
HoldsSummary(r, text) ==
  LET first == IF Len(text) < PreviewLength THEN Len(text) ELSE PreviewLength
  IN  /\ r.responseBody.t = "object"
      /\ DefinedKeys(r.responseBody) = { TypeKey, PreviewKey, OriginalLengthKey }
      /\ getProperty(r.responseBody, TypeKey) = Str(Truncated)
      /\ getProperty(r.responseBody, OriginalLengthKey) = Num(Len(text))
      /\ getProperty(r.responseBody, PreviewKey) =
           Str([ i \in 1 .. first + 3 |->
                   IF i <= first THEN text[i] ELSE "." ])
      /\ Len(getProperty(r.responseBody, PreviewKey).s) <= PreviewLength + 3

\* C22, as stated: whenever a completeRequest writes its record, a response
\* body whose serialized form is longer than maxResponseBodySize is stored as
\* the summary {type, originalLength, preview}, the preview at most 1003
\* characters long, and any other body is stored unchanged.
C22_Stated ==
  [][ \A c \in Callers :
        (CompleteSaveStep(c) /\ last'.calls[2].ok) =>
          LET responseBody == ops[c].arg[1].responseBody
          IN  IF Len(stringify(responseBody)) > cfg.maxResponseBodySize[1]
                THEN HoldsSummary(LastRecord'[1], stringify(responseBody))
                ELSE LastRecord'[1].responseBody = responseBody ]_vars

\* C22, amended: whenever a completeRequest writes its record, a truthy
\* response body whose serialized form is longer than maxResponseBodySize is
\* stored as the summary {type, originalLength, preview}, the preview at
\* most 1003 characters long, and any other body - a shorter one, or a
\* falsy one such as '' - is stored unchanged.
C22_Truthy ==
  [][ \A c \in Callers :
        (CompleteSaveStep(c) /\ last'.calls[2].ok) =>
          LET responseBody == ops[c].arg[1].responseBody
          IN  IF /\ isTruthy(responseBody)
                 /\ Len(stringify(responseBody)) > cfg.maxResponseBodySize[1]
                THEN HoldsSummary(LastRecord'[1], stringify(responseBody))
                ELSE LastRecord'[1].responseBody = responseBody ]_vars

\* A completeRequest has stored the summary of a body longer than a limit
\* that lies above the preview length: the preview is 1000 characters of the
\* body and the three dots.
C22_Witness ==
  /\ last.kind = "complete" /\ Len(last.calls) = 2 /\ last.calls[2].ok
  /\ cfg.maxResponseBodySize = Some(PreviewLength + SmallSize)
  /\ LastRecord # None
  /\ getProperty(LastRecord[1].responseBody, OriginalLengthKey) =
       Num(PreviewLength + SmallSize + 1)
  /\ Len(getProperty(LastRecord[1].responseBody, PreviewKey).s) =
       PreviewLength + 3

\* -------------------------------------------------------------------- C23

\* The store calls of startRequest, in the order of the code.
StartOrder ==
  << "saveRequestHistory", "getRequestHistoryCount",
     "removeOldestRequestHistory" >>

\* The calls issued are the first of StartOrder, each one issued after the
\* one before it was answered.
InStartOrder(calls) ==
  /\ Len(calls) <= Len(StartOrder)
  /\ \A i \in DOMAIN calls : calls[i].op = StartOrder[i]
  /\ \A i \in DOMAIN calls : i < Len(calls) => calls[i].ok

\* C23: a startRequest issues its store calls in the order save, count,
\* trim, each after the one before it was answered: it stands at the count
\* with the save alone behind it and at the trim with the save and the
\* count behind it, its id is not handed out while it is in progress, and a
\* call that has returned an id has had its record persisted.
C23_Order ==
  /\ \A c \in Callers :
       (ops[c].kind = "start" /\ InProgress(ops[c])) =>
         /\ InStartOrder(ops[c].calls) /\ ops[c].calls[Len(ops[c].calls)].ok
         /\ ops[c].pc = "count" => Len(ops[c].calls) = 1
         /\ ops[c].pc = "trim" => Len(ops[c].calls) = 2
         /\ ops[c].id \notin issued
  /\ last.kind = "start" =>
       /\ InStartOrder(last.calls)
       /\ last.ret # None => (last.calls # << >> /\ last.calls[1].ok)

\* A startRequest has returned its id after the save, the count and the trim,
\* all answered.
C23_Witness ==
  /\ last.kind = "start" /\ last.ret # None /\ Len(last.calls) = 3
  /\ InStartOrder(last.calls) /\ last.calls[3].ok

\* -------------------------------------------------------------------- C24

\* This step, a startRequest that carries no owner key reaches the store and
\* returns.
NoKeyStart ==
  /\ nextId' # nextId
  /\ last'.kind = "start" /\ last'.key = NoKey /\ last'.id = nextId

\* C24: a startRequest without an owner key whose save is answered returns
\* its id with the save as its only store call - no count, no trim: the
\* record is stored 'pending' behind the records that were there, which all
\* stay, as do the earlier records of every owner; and no startRequest
\* without an owner key ever stands at the count or at the trim.
C24_NoKey ==
  [][ /\ (NoKeyStart /\ last'.calls[1].ok) =>
           /\ last'.ret = Some(nextId) /\ nextId \in issued'
           /\ Len(last'.calls) = 1
           /\ last'.calls[1].op = "saveRequestHistory"
           /\ Len(history') = Len(history) + 1
           /\ SubSeq(history', 1, Len(history)) = history
           /\ history'[Len(history')].requestId = nextId
           /\ history'[Len(history')].status = "pending"
           /\ history'[Len(history')].apiKeyId = NoKey
           /\ oldCount' = oldCount
      /\ \A c \in Callers :
           (ops'[c].kind = "start" /\ InProgress(ops'[c])) =>
             ops'[c].key # NoKey ]_vars

\* A startRequest without an owner key has returned its id, its record
\* stored, while the records of owner k1 stand above the cleanup threshold.
C24_Witness ==
  /\ last.kind = "start" /\ last.key = NoKey /\ last.ret # None
  /\ Len(last.calls) = 1
  /\ HasStatus(last.ret[1], "pending")
  /\ getRequestHistoryCount("k1") > cleanupThreshold(CurrentCap)

\* -------------------------------------------------------------------- C25

\* The fields of record r that startRequest writes.
StartFields(r) ==
  << r.requestId, r.apiKeyId, r.apiKeyName, r.model, r.requestBody, r.headers,
     r.timestamp, r.startTime >>

\* C25: no step changes a start field of a record that stays stored; the
\* updatedRecord a completeRequest or failRequest builds has the start
\* fields of the record it read and keeps them until its save, and the
\* record that save stores has them too.
C25_StartFields ==
  [][ /\ \A i \in DOMAIN history, j \in DOMAIN history' :
           history[i].requestId = history'[j].requestId =>
             StartFields(history'[j]) = StartFields(history[i])
      /\ \A c \in Callers :
           (ops'[c].kind \in {"complete", "fail"} /\ ops'[c].pc = "save") =>
             IF InProgress(ops[c])
               THEN StartFields(ops'[c].upd[1]) = StartFields(ops[c].upd[1])
               ELSE \E i \in DOMAIN history :
                      /\ history[i].requestId = ops'[c].id
                      /\ StartFields(ops'[c].upd[1]) = StartFields(history[i])
      /\ \A c \in Callers :
           ((CompleteSaveStep(c) \/ FailSaveStep(c)) /\ last'.calls[2].ok) =>
             /\ LastRecord' # None
             /\ StartFields(LastRecord'[1]) = StartFields(ops[c].upd[1]) ]_vars

\* A record has been failed and then completed, and still has the name, the
\* model, the body and the redacted headers it was started with.
C25_Witness ==
  /\ last.kind = "complete" /\ Len(last.calls) = 2
  /\ LastRecord # None
  /\ LastRecord[1].status = "success" /\ LastRecord[1].error # None
  /\ LastRecord[1].apiKeyName = Str(Text(4))
  /\ LastRecord[1].model = Str(Text(3))
  /\ LastRecord[1].requestBody = Obj(<< Entry(MessagesKey, Str(Text(3))) >>)
  /\ LastRecord[1].headers =
       << Entry(Authorization, Redacted), Entry(Accept, "gzip") >>

\* -------------------------------------------------------------------- C26

\* C26: every stored record is 'pending', 'success' or 'error'; it has an
\* endTime exactly when it is 'success' or 'error', a duration exactly when
\* it has an endTime, and then duration = endTime - startTime.
C26_Terminal ==
  \A i \in DOMAIN history :
    LET r == history[i]
    IN  /\ r.status \in {"pending", "success", "error"}
        /\ (r.endTime # None) <=> (r.status \in {"success", "error"})
        /\ (r.duration # None) <=> (r.endTime # None)
        /\ r.endTime # None => r.duration[1] = r.endTime[1] - r.startTime

\* A record started at one instant and failed at the next is stored with a
\* duration of 1, beside nothing else.
C26_Witness ==
  /\ Len(history) = 1
  /\ history[1].status = "error"
  /\ history[1].startTime = ClockStart
  /\ history[1].endTime = Some(ClockStart + 1)
  /\ history[1].duration = Some(1)

\* -------------------------------------------------------------------- C27

\* C27, as stated: a stored 'success' record has no error field, and a
\* stored 'error' record has no responseBody and none of the five token
\* fields.
C27_Stated ==
  \A i \in DOMAIN history :
    LET r == history[i]
    IN  /\ r.status = "success" => r.error = None
        /\ r.status = "error" =>
             /\ r.responseBody = Undefined
             /\ r.inputTokens = None /\ r.outputTokens = None
             /\ r.cacheCreateTokens = None /\ r.cacheReadTokens = None
             /\ r.totalTokens = None

\* -------------------------------------------------------------------- C28

\* C28: whatever the interleaving of the reads and the writes of the
\* terminal calls, the save of a completeRequest leaves the record
\* 'success' and the save of a failRequest leaves it 'error' - the stored
\* status is that of the call that wrote last; a record that is not
\* 'pending' is not 'pending' after any step, and a 'pending' record a step
\* brings in is the one a startRequest has just made.
C28_LastWriter ==
  [][ /\ \A c \in Callers :
           /\ CompleteSaveStep(c) => HasStatus(last.id, "success")'
           /\ FailSaveStep(c) => HasStatus(last.id, "error")'
      /\ \A j \in DOMAIN history' :
           history'[j].status = "pending" =>
             \/ history'[j].requestId = nextId /\ nextId' # nextId
             \/ \E i \in DOMAIN history :
                  /\ history[i].requestId = history'[j].requestId
                  /\ history[i].status = "pending" ]_vars

\* A completeRequest and a failRequest have both read the same 'pending'
\* record; the write of the completeRequest has landed, the record is
\* 'success', and the failRequest stands at its save with the 'error'
\* record it has built from what it read.
C28_Witness ==
  \E c \in Callers :
    /\ ops[c].kind = "fail" /\ ops[c].pc = "save" /\ ~ops[c].alone
    /\ ops[c].upd[1].status = "error" /\ ops[c].upd[1].totalTokens = None
    /\ HasStatus(ops[c].id, "success")
    /\ last.kind = "complete" /\ last.id = ops[c].id /\ Len(last.calls) = 2

\* -------------------------------------------------------------------- C29

\* This step, the save of a completeRequest or failRequest for requestId
\* is answered.
TerminalWrite(requestId) ==
  \E c \in Callers :
    (CompleteSaveStep(c) \/ FailSaveStep(c)) /\ ops[c].id = requestId

\* This step, a deleteRequest for requestId runs.
DeleteStep(requestId) ==
  ends' # ends /\ last'.kind = "delete" /\ last'.id = requestId

\* C29: a stored 'pending' record that a step leaves stored is the same
\* record after it, unless the step is the save of a completeRequest or
\* failRequest for its id; and a step after which it is no longer stored
\* is a deleteRequest for its id or the trim of a startRequest for its owner
\* key.
C29_Pending ==
  [][ \A i \in DOMAIN history :
        history[i].status = "pending" =>
          IF \E j \in DOMAIN history' :
               history'[j].requestId = history[i].requestId
            THEN \/ \E j \in DOMAIN history' : history'[j] = history[i]
                 \/ TerminalWrite(history[i].requestId)
            ELSE \/ DeleteStep(history[i].requestId)
                 \/ \E c \in Callers :
                      TrimStep(c) /\ ops[c].key = history[i].apiKeyId ]_vars

\* Every terminal call and deleteRequest the run allows has been made on the
\* second record, which is gone, and the first record is still 'pending'.
C29_Witness ==
  /\ ends = MaxEnds /\ \A c \in Callers : ~InProgress(ops[c])
  /\ last.kind = "delete" /\ last.id = 2 /\ last.ret = Some(TRUE)
  /\ Len(history) = 1
  /\ history[1].requestId = 1 /\ history[1].status = "pending"

\* A 'pending' record has left the store through the trim of a startRequest
\* for its owner key.
C29_Trimmed ==
  /\ last.kind = "start" /\ LastTrimmed /\ last.ret # None
  /\ issued = {1, 2} /\ ends = 0
  /\ history = << >>

\* -------------------------------------------------------------------- C30

\* The records of this run owned by apiKeyId, oldest first.
RecordsOf(apiKeyId) == SelectSeq(history, LAMBDA r : r.apiKeyId = apiKeyId)

\* This step, a startRequest for owner apiKeyId takes one of its steps: it
\* is called, or it gets the answer of its count or of its trim.
StartStepOf(apiKeyId) ==
  \/ \E c \in Callers : (CountStep(c) \/ TrimStep(c)) /\ ops[c].key = apiKeyId
  \/ \E c \in Callers :
       ~InProgress(ops[c]) /\ InProgress(ops'[c]) /\ ops'[c].key = apiKeyId
  \/ /\ last' # last /\ last'.kind = "start" /\ last'.key = apiKeyId
     /\ \A c \in Callers : ~InProgress(ops[c]) => ~InProgress(ops'[c])
     /\ \A c \in Callers : ~(CountStep(c) \/ TrimStep(c))

\* C30: every step of a startRequest for an owner key leaves the records of
\* every other owner, those of this run and the earlier ones, as they were;
\* the count its trim decision rests on is the count of its own key, and
\* its trim removes records of its own key only - as many as the store takes
\* off that key for the number asked.
C30_PerOwner ==
  [][ /\ \A apiKeyId \in RequestKeys, other \in RequestKeys :
           (StartStepOf(apiKeyId) /\ other # apiKeyId) =>
             /\ SelectSeq(history', LAMBDA r : r.apiKeyId = other)
                  = RecordsOf(other)
             /\ other \in Keys => oldCount'[other] = oldCount[other]
      /\ \A c \in Callers :
           (CountStep(c) /\ ops'[c].pc = "trim") =>
             /\ ops'[c].cnt = Some(getRequestHistoryCount(ops[c].key))
             /\ ops'[c].key = ops[c].key
      /\ \A c \in Callers :
           (TrimStep(c) /\ last'.calls[3].ok) =>
             oldCount'[ops[c].key]
               + Len(SelectSeq(history', LAMBDA r : r.apiKeyId = ops[c].key))
             = getRequestHistoryCount(ops[c].key)
                 - Min(ops[c].excess[1], getRequestHistoryCount(ops[c].key))
    ]_vars

\* A startRequest for owner k1 has trimmed records of k1 while a record of
\* owner k2 of this run, and the earlier ones of k2 above its own threshold,
\* are all still there.
C30_Witness ==
  /\ last.kind = "start" /\ last.key = "k1" /\ LastTrimmed
  /\ getRequestHistoryCount("k1") <= CurrentCap
  /\ Len(RecordsOf("k2")) = 1
  /\ getRequestHistoryCount("k2") > cleanupThreshold(CurrentCap)

\* -------------------------------------------------------------------- C31

\* updateConfig returns true: its redis.set has taken effect.
UpdateReturnsTrue ==
  admin.pc = "set" /\ admin'.pc = "idle" /\ admin'.ret = Some(TRUE)

\* C31, as stated, for the interleavings in which updateConfig is the one
\* that finishes last: when updateConfig returns true and the initial load
\* started by the constructor has finished, every field the update validly
\* set holds the update's value both in memory and in the persisted
\* configuration.
C31_Stated ==
  [][ (UpdateReturnsTrue /\ initPc' = "done") =>
        \A f \in DOMAIN cfg :
          ValidField(admin.arg[1], f) =>
            /\ cfg'[f] = admin.arg[1][f]
            /\ blob' # None
            /\ blob'[1][f] = admin.arg[1][f] ]_vars

\* -------------------------------------------------------------------- C32

\* A record is stored under requestId.
Stored(requestId) == getRequestHistory(requestId) # None

\* C32, as stated: a removed record stays removed.  Where every store call
\* is answered, an id that has been given out and is not in the store is the
\* id of a record that a deleteRequest (returning true) or a retention trim
\* has removed; no step, whatever completeRequest or failRequest calls
\* overlap it, puts a record under such an id into the store.
C32_Stated ==
  [][ \A requestId \in 1 .. (nextId - 1) :
        ~Stored(requestId) =>
          \A j \in DOMAIN history' : history'[j].requestId # requestId ]_vars

\* -------------------------------------------------------------------- C33

\* The headers of the record r are redacted: every header whose lower-cased
\* name is on the denylist holds '[REDACTED]'.
RedactedHeaders(r) ==
  \A e \in DOMAIN r.headers :
    includes(sensitiveHeaders, toLowerCase(r.headers[e].key)) =>
      r.headers[e].value = Redacted

\* C33: in every reachable state the headers of every stored record are
\* redacted - when startRequest has saved it and after whatever
\* completeRequest and failRequest calls have been made on it; and a record
\* being written by such a call has redacted headers too.
C33_Redacted ==
  /\ \A i \in DOMAIN history : RedactedHeaders(history[i])
  /\ \A c \in Callers : ops[c].upd # None => RedactedHeaders(ops[c].upd[1])

\* A record started with Authorization and Accept headers has been failed
\* and then completed: it is a 'success' that still carries the error, its
\* Authorization header holds '[REDACTED]' and its Accept header its value.
C33_Witness ==
  /\ ends = MaxEnds /\ \A c \in Callers : ~InProgress(ops[c])
  /\ Len(history) = 1
  /\ history[1].status = "success" /\ history[1].error # None
  /\ Len(history[1].headers) = 2
  /\ history[1].headers[1].key = Authorization
  /\ history[1].headers[1].value = Redacted
  /\ history[1].headers[2].key = Accept
  /\ history[1].headers[2].value = "gzip"

\* -------------------------------------------------------------------- C34

\* This step, a startRequest returns from its trim having read, at its
\* count, another cap than the one now in memory: an updateConfig came
\* in between.
StaleCap ==
  \E c \in Callers : TrimStep(c) /\ ops[c].lim # cfg.maxRecordsPerKey

\* C34: no step of updateConfig removes or adds a record, however many the
\* owners then hold above the new cap; and a startRequest that no other call
\* overlapped, whose store calls were all answered and which still found at
\* its trim the cap it had read at its count - as every startRequest called
\* after updateConfig has set a smaller cap M' does - leaves its owner key
\* with at most M' + 100 records, M' being the cap in memory.
C34_NextInsert ==
  [][ /\ admin' # admin => (history' = history /\ oldCount' = oldCount)
      /\ (QuietStartReturns /\ ~StaleCap) =>
           getRequestHistoryCount(last.key)'
             <= cfg'.maxRecordsPerKey[1] + CleanupBuffer ]_vars

\* updateConfig has lowered the cap from the default to LowCap and has
\* returned true; the startRequest called next found the key with the
\* default cap + 99 records, inserted its own, removed all but LowCap and
\* returned.
C34_Witness ==
  /\ admin.pc = "idle" /\ admin.ret = Some(TRUE)
  /\ cfg.maxRecordsPerKey = Some(LowCap)
  /\ last.kind = "start" /\ last.alone /\ LastTrimmed
  /\ last.pre = DefaultMaxRecordsPerKey + CleanupBuffer - 1
  /\ last.calls[3].n = last.pre + 1 - LowCap
  /\ getRequestHistoryCount(last.key) = LowCap

\* updateConfig has just lowered the cap, and owner k1 holds more than the
\* new cap + 100 records: none of them has been removed.
C34_Lowered ==
  /\ admin.pc = "set" /\ cfg.maxRecordsPerKey = Some(LowCap)
  /\ getRequestHistoryCount("k1") = DefaultMaxRecordsPerKey + CleanupBuffer - 1

=========================================================================
